---------------------------- MODULE Spec2Model ----------------------------
(***************************************************************************)
(* Model of the hierarchical adaptive chunker (adaptive_chunker.py), the   *)
(* hybrid retrieval engine (hybrid_retrieval.py) and the diversity         *)
(* deduplicator (deduplication_utils.py).                                  *)
(*                                                                         *)
(* Text is a sequence of one-character strings.  Positions are 0-based as  *)
(* in Python: the character at position p of s is s[p + 1], and the slice  *)
(* s[a:b] is SubSeq(s, a + 1, b).                                          *)
(***************************************************************************)
EXTENDS Integers, Sequences, FiniteSets, TLC

(***************************************************************************)
(* Characters and character classes of the regular expressions.            *)
(***************************************************************************)
NL == "\n"

UpperSeq == <<"A","B","C","D","E","F","G","H","I","J","K","L","M",
              "N","O","P","Q","R","S","T","U","V","W","X","Y","Z">>

LowerSeq == <<"a","b","c","d","e","f","g","h","i","j","k","l","m",
              "n","o","p","q","r","s","t","u","v","w","x","y","z">>

Upper == {UpperSeq[i] : i \in 1..26}

Lower == {LowerSeq[i] : i \in 1..26}

Letters == Upper \cup Lower

Digits == {"0","1","2","3","4","5","6","7","8","9"}

\* \s
WS == {" ", NL, "\t"}

\* [-:] and the en/em dashes of the main note pattern
DashClass == {"-", ":"}

\* [A-Za-z\s,&\(\)]
TitleClass == Letters \cup WS \cup {",", "&", "(", ")"}

\* [.!?]
SentenceEnd == {".", "!", "?"}

\* [-*] and the bullet of the list patterns
BulletClass == {"-", "*"}

\* str.lower() of one character
LowerChar(c) ==
    IF c \in Upper THEN LowerSeq[CHOOSE i \in 1..26 : UpperSeq[i] = c] ELSE c

\* str.lower()
ToLower(s) == [i \in 1..Len(s) |-> LowerChar(s[i])]

\* s[a:b]
Slice(s, a, b) == SubSeq(s, a + 1, b)

\* first position q >= p whose character is outside class C (Len(s) if none):
\* the end of a greedy C* started at p
RECURSIVE SkipClass(_, _, _)
SkipClass(s, p, C) ==
    IF p < Len(s) /\ s[p + 1] \in C THEN SkipClass(s, p + 1, C) ELSE p

\* str.strip()
RECURSIVE RStrip(_)
RStrip(s) ==
    IF Len(s) > 0 /\ s[Len(s)] \in WS THEN RStrip(SubSeq(s, 1, Len(s) - 1)) ELSE s

Strip(s) == RStrip(Slice(s, SkipClass(s, 0, WS), Len(s)))

\* the literal lit stands at position p of s
LitAt(s, p, lit) ==
    /\ p + Len(lit) <= Len(s)
    /\ \A i \in 1..Len(lit) : s[p + i] = lit[i]

\* `sub in s`
Contains(s, sub) == \E p \in 0..(Len(s) - Len(sub)) : LitAt(s, p, sub)

\* (?:^|\n) under re.MULTILINE can start a match at p: p is a line start, or
\* the character at p is the newline the second alternative consumes
Anchor(s, p) ==
    \/ p = 0
    \/ p <= Len(s) /\ s[p] = NL
    \/ p < Len(s) /\ s[p + 1] = NL

\* Python None
None == <<"None">>

NoMatch == [ok |-> FALSE]

\* the elements of a sequence
Range(seq) == {seq[i] : i \in 1..Len(seq)}

(***************************************************************************)
(* NoteParser                                                              *)
(***************************************************************************)
StrNOTE == <<"N","O","T","E">>

StrNoteLower == <<"n","o","t","e">>

StrNotePrefix == <<"N","o","t","e"," ">>

\* main_note_pattern, (?:^|\n)\s*NOTE\s+(\d+)\s*[-:]*\s*([A-Z][A-Za-z\s,&\(\)]*)
\* with IGNORECASE | MULTILINE, tried at position p.  Every quantifier is
\* greedy and is followed by a character outside its class, so the match is
\* the greedy one or none.
MainNoteMatch(s, p) ==
    LET q1 == SkipClass(s, p, WS)
        q2 == SkipClass(s, q1 + 4, WS)
        q3 == SkipClass(s, q2, Digits)
        q4 == SkipClass(s, q3, WS)
        q5 == SkipClass(s, q4, DashClass)
        q6 == SkipClass(s, q5, WS)
        q7 == SkipClass(s, q6 + 1, TitleClass)
    IN  IF /\ Anchor(s, p)
           /\ q1 + 4 <= Len(s)
           /\ ToLower(Slice(s, q1, q1 + 4)) = StrNoteLower
           /\ q2 > q1 + 4
           /\ q3 > q2
           /\ q6 < Len(s)
           /\ s[q6 + 1] \in Letters
        THEN [ok |-> TRUE, start |-> p, end |-> q7,
              g1 |-> Slice(s, q2, q3), g2 |-> Slice(s, q6, q7)]
        ELSE NoMatch

\* sub_note_pattern, (?:^|\n)\s*(\d+)\.(\d+)\s+([A-Z][A-Za-z\s,&\(\)]*)
\* with MULTILINE, tried at position p
SubNoteMatch(s, p) ==
    LET q1 == SkipClass(s, p, WS)
        q2 == SkipClass(s, q1, Digits)
        q3 == SkipClass(s, q2 + 1, Digits)
        q4 == SkipClass(s, q3, WS)
        q5 == SkipClass(s, q4 + 1, TitleClass)
    IN  IF /\ Anchor(s, p)
           /\ q2 > q1
           /\ q2 < Len(s)
           /\ s[q2 + 1] = "."
           /\ q3 > q2 + 1
           /\ q4 > q3
           /\ q4 < Len(s)
           /\ s[q4 + 1] \in Upper
        THEN [ok |-> TRUE, start |-> p, end |-> q5,
              g1 |-> Slice(s, q1, q2), g2 |-> Slice(s, q2 + 1, q3),
              g3 |-> Slice(s, q4, q5)]
        ELSE NoMatch

\* sub_section_pattern, (?:^|\n)\s*\(([a-z])\)\s+([A-Z][A-Za-z\s,&\(\)]*)
\* with MULTILINE, tried at position p
SubSectionMatch(s, p) ==
    LET q1 == SkipClass(s, p, WS)
        q2 == SkipClass(s, q1 + 3, WS)
        q3 == SkipClass(s, q2 + 1, TitleClass)
    IN  IF /\ Anchor(s, p)
           /\ q1 + 3 <= Len(s)
           /\ s[q1 + 1] = "("
           /\ s[q1 + 2] \in Lower
           /\ s[q1 + 3] = ")"
           /\ q2 > q1 + 3
           /\ q2 < Len(s)
           /\ s[q2 + 1] \in Upper
        THEN [ok |-> TRUE, start |-> p, end |-> q3,
              g1 |-> <<s[q1 + 2]>>, g2 |-> Slice(s, q2, q3)]
        ELSE NoMatch

\* pattern.finditer(s): the non-overlapping matches, leftmost first, the
\* search resuming where the previous match ended
RECURSIVE FindMainNotes(_, _)
FindMainNotes(s, from) ==
    IF from > Len(s) THEN <<>>
    ELSE LET m == MainNoteMatch(s, from)
         IN  IF m.ok THEN <<m>> \o FindMainNotes(s, m.end)
             ELSE FindMainNotes(s, from + 1)

RECURSIVE FindSubNotes(_, _)
FindSubNotes(s, from) ==
    IF from > Len(s) THEN <<>>
    ELSE LET m == SubNoteMatch(s, from)
         IN  IF m.ok THEN <<m>> \o FindSubNotes(s, m.end)
             ELSE FindSubNotes(s, from + 1)

RECURSIVE FindSubSections(_, _)
FindSubSections(s, from) ==
    IF from > Len(s) THEN <<>>
    ELSE LET m == SubSectionMatch(s, from)
         IN  IF m.ok THEN <<m>> \o FindSubSections(s, m.end)
             ELSE FindSubSections(s, from + 1)

\* a variant of the end_pos loop whose last boundary stops one character
\* short of the end of the text
SetEndPositionsShort(bs, textLen) ==
    [i \in 1..Len(bs) |->
        [bs[i] EXCEPT !.end_pos =
            IF i < Len(bs) THEN bs[i + 1].start_pos ELSE textLen - 1]]

\* the loop that sets end_pos: the next boundary's start_pos, or the length
\* of the text for the last boundary
SetEndPositions(bs, textLen) ==
    [i \in 1..Len(bs) |->
        [bs[i] EXCEPT !.end_pos =
            IF i < Len(bs) THEN bs[i + 1].start_pos ELSE textLen]]

\* NoteParser.detect_note_boundaries
detect_note_boundaries(text) ==
    LET ms == FindMainNotes(text, 0)
        bs == [i \in 1..Len(ms) |->
                 [note_number |-> StrNotePrefix \o ms[i].g1,
                  note_title  |-> Strip(ms[i].g2),
                  start_pos   |-> ms[i].start,
                  end_pos     |-> None]]
    IN  SetEndPositions(bs, Len(text))

\* a variant of the selection without the `num1 == main_num` test
SelectAllMatches(ms, main_num) == ms

\* `if num1 == main_num`: the sub-note matches of this main note, in order
RECURSIVE SelectMatches(_, _)
SelectMatches(ms, main_num) ==
    IF ms = <<>> THEN <<>>
    ELSE (IF Head(ms).g1 = main_num THEN <<Head(ms)>> ELSE <<>>)
         \o SelectMatches(Tail(ms), main_num)

\* NoteParser.parse_note_hierarchy, the 'sub_notes' it returns.  note_number
\* is 'Note <digits>', so replace('Note ', '') leaves the digits.
parse_note_hierarchy(note_text, note_number) ==
    LET main_num == Slice(note_number, 5, Len(note_number))
        ms == SelectMatches(FindSubNotes(note_text, 0), main_num)
        bs == [i \in 1..Len(ms) |->
                 [sub_note  |-> ms[i].g1 \o <<".">> \o ms[i].g2,
                  title     |-> Strip(ms[i].g3),
                  start_pos |-> ms[i].start,
                  end_pos   |-> None]]
    IN  SetEndPositions(bs, Len(note_text))

(***************************************************************************)
(* UniversalClassifier.is_critical_paragraph                               *)
(***************************************************************************)
critical_keywords == {
    <<"f","a","i","r"," ","v","a","l","u","e">>,
    <<"i","n","v","e","s","t","m","e","n","t"," ","p","r","o","p","e","r","t">>,
    <<"a","s"," ","a","t"," ","m","a","r","c","h"," ","3","1">>,
    <<"a","s"," ","a","t">>,
    <<"c","a","r","r","y","i","n","g"," ","a","m","o","u","n","t">>,
    <<"n","o","t","e",":">>,
    <<"n","o","t","e"," ">>,
    <<"s","i","g","n","i","f","i","c","a","n","t"," ","a","c","c","o","u","n","t","i","n","g">>,
    <<"t","h","e"," ","g","r","o","u","p","'","s"," ","i","n","v","e","s","t","m","e","n","t">>,
    <<"t","h","e"," ","c","o","m","p","a","n","y","'","s"," ","i","n","v","e","s","t","m","e","n","t">>,
    <<"d","e","t","e","r","m","i","n","e","d"," ","b","a","s","e","d"," ","o","n">>,
    <<"f","a","i","r"," ","v","a","l","u","e","s"," ","o","f"," ","t","h","e"," ","p","r","o","p","e","r","t","i","e","s">>,
    <<"p","r","o","p","e","r","t","i","e","s"," ","a","r","e"," ","i","n","r">> }

is_critical_paragraph(text) ==
    LET text_lower == ToLower(text)
    IN  \E keyword \in critical_keywords : Contains(text_lower, keyword)

(***************************************************************************)
(* AdaptiveChunker: elements                                               *)
(***************************************************************************)
\* the last newline at a position in lo..hi-1, or -1
RECURSIVE LastNL(_, _, _)
LastNL(s, lo, hi) ==
    IF hi <= lo THEN -1
    ELSE IF s[hi] = NL THEN hi - 1 ELSE LastNL(s, lo, hi - 1)

\* re.split(r'\n\s*\n', s): a separator starts at a newline and ends at the
\* last newline of the whitespace run that follows it
RECURSIVE SplitBlank(_, _, _)
SplitBlank(s, start, p) ==
    IF p >= Len(s) THEN <<Slice(s, start, Len(s))>>
    ELSE IF s[p + 1] = NL
         THEN LET r == SkipClass(s, p + 1, WS)
                  l == LastNL(s, p + 1, r)
              IN  IF l >= 0
                  THEN <<Slice(s, start, p)>> \o SplitBlank(s, l + 1, l + 1)
                  ELSE SplitBlank(s, start, r)
         ELSE SplitBlank(s, start, p + 1)

\* a line end for $ under re.MULTILINE
LineEnd(s, q) == q = Len(s) \/ (q < Len(s) /\ s[q + 1] = NL)

\* a line start for ^ under re.MULTILINE
LineStart(s, p) == p = 0 \/ (p <= Len(s) /\ s[p] = NL)

\* heading_pattern.search, ^[A-Z\s]{10,}$|^NOTE\s+\d+ with MULTILINE
HeadingSearch(s) ==
    \E p \in 0..Len(s) :
        /\ LineStart(s, p)
        /\ \/ \E q \in (p + 10)..SkipClass(s, p, Upper \cup WS) : LineEnd(s, q)
           \/ /\ LitAt(s, p, StrNOTE)
              /\ SkipClass(s, p + 4, WS) > p + 4
              /\ SkipClass(s, SkipClass(s, p + 4, WS), Digits)
                    > SkipClass(s, p + 4, WS)

\* table_pattern.search, (?:^|\n)(?:\s*\|.*\|.*$|\s*[-+]+\s*$) with MULTILINE
TableSearch(s) ==
    \E p \in 0..Len(s) :
        /\ Anchor(s, p)
        /\ LET q == SkipClass(s, p, WS)
               d == SkipClass(s, q, {"-", "+"})
           IN  \/ /\ q < Len(s)
                  /\ s[q + 1] = "|"
                  /\ \E r \in (q + 1)..(Len(s) - 1) :
                        /\ s[r + 1] = "|"
                        /\ \A t \in (q + 1)..r : s[t + 1] # NL
               \/ /\ d > q
                  /\ LineEnd(s, SkipClass(s, d, WS \ {NL}))

\* (?:\d+\.|[-*])\s+ at position q
ListMarkerAt(s, q) ==
    LET d == SkipClass(s, q, Digits)
    IN  \/ /\ d > q
           /\ d < Len(s)
           /\ s[d + 1] = "."
           /\ SkipClass(s, d + 1, WS) > d + 1
        \/ /\ q < Len(s)
           /\ s[q + 1] \in BulletClass
           /\ SkipClass(s, q + 1, WS) > q + 1

\* list_pattern.search, (?:^|\n)\s*(?:\d+\.|[-*])\s+ with MULTILINE
ListSearch(s) ==
    \E p \in 0..Len(s) : Anchor(s, p) /\ ListMarkerAt(s, SkipClass(s, p, WS))

\* AdaptiveChunker._classify_element_type
_classify_element_type(text) ==
    LET text_strip == Strip(text)
    IN  IF Len(text_strip) < 100 /\ HeadingSearch(text_strip) THEN "heading"
        ELSE IF TableSearch(text_strip) THEN "table"
        ELSE IF ListSearch(text_strip) THEN "list"
        ELSE "paragraph"

RECURSIVE ElementsOf(_)
ElementsOf(sections) ==
    IF sections = <<>> THEN <<>>
    ELSE LET section == Head(sections)
         IN  (IF Strip(section) = <<>> THEN <<>>
              ELSE <<[type |-> _classify_element_type(section),
                      text |-> Strip(section)]>>)
             \o ElementsOf(Tail(sections))

\* AdaptiveChunker._extract_elements
_extract_elements(text) == ElementsOf(SplitBlank(text, 0, 0))

(***************************************************************************)
(* AdaptiveChunker: chunks.  content_types, has_subjective and             *)
(* has_objective (NoteParser.detect_content_types) are labels no branch    *)
(* reads; the model leaves them out of the Chunk record.                   *)
(***************************************************************************)
\* Chunk(text, chunk_type, page_numbers, char_count, is_critical) with the
\* dataclass defaults of the note fields
Chunk(text, chunk_type, page_numbers, char_count, is_critical) ==
    [text |-> text, chunk_type |-> chunk_type, page_numbers |-> page_numbers,
     char_count |-> char_count, is_critical |-> is_critical,
     note_number |-> None, sub_note |-> None, sub_section |-> None,
     note_title |-> None, hierarchy_level |-> 0, parent_note |-> None,
     is_complete_note |-> FALSE]

\* re.split(r'(?<=[.!?])\s+', s): a separator is a whitespace run that
\* directly follows a sentence end
RECURSIVE SplitSentences(_, _, _)
SplitSentences(s, start, p) ==
    IF p >= Len(s) THEN <<Slice(s, start, Len(s))>>
    ELSE IF p > 0 /\ s[p] \in SentenceEnd /\ s[p + 1] \in WS
         THEN LET r == SkipClass(s, p, WS)
              IN  <<Slice(s, start, p)>> \o SplitSentences(s, r, r)
         ELSE SplitSentences(s, start, p + 1)

\* list.index(x): 0-based position of the first element equal to x
IndexOf(seq, x) == (CHOOSE i \in 1..Len(seq) : seq[i] = x /\ \A j \in 1..(i - 1) : seq[j] # x) - 1

\* a variant of SaveCurrent that counts the characters before trimming
SaveCurrentCountsUntrimmed(chunks, current_chunk, chunk_type, page_num) ==
    IF Strip(current_chunk) # <<>>
    THEN Append(chunks, Chunk(Strip(current_chunk), chunk_type, <<page_num>>,
                              Len(current_chunk), FALSE))
    ELSE chunks

\* the `if current_chunk.strip(): chunks.append(...)` of both splitters
SaveCurrent(chunks, current_chunk, chunk_type, page_num) ==
    IF Strip(current_chunk) # <<>>
    THEN Append(chunks, Chunk(Strip(current_chunk), chunk_type, <<page_num>>,
                              Len(Strip(current_chunk)), FALSE))
    ELSE chunks

\* the for loop of _chunk_paragraph from sentence i on; st is
\* [chunks, current_chunk, current_size]
RECURSIVE ParagraphLoop(_, _, _, _, _)
ParagraphLoop(sentences, i, st, page_num, max_chunk_size) ==
    IF i > Len(sentences) THEN st
    ELSE LET sentence == sentences[i]
             sentence_len == Len(sentence)
         IN  IF st.current_size + sentence_len <= max_chunk_size
             THEN ParagraphLoop(sentences, i + 1,
                     [st EXCEPT !.current_chunk = @ \o sentence \o <<" ">>,
                                !.current_size = @ + sentence_len + 1],
                     page_num, max_chunk_size)
             ELSE LET chunks == SaveCurrent(st.chunks, st.current_chunk,
                                            "paragraph", page_num)
                      last_sentence ==
                          IF IndexOf(sentences, sentence) > 0
                          THEN sentences[IndexOf(sentences, sentence)]
                          ELSE <<>>
                  IN  ParagraphLoop(sentences, i + 1,
                         IF chunks # <<>>
                         THEN [chunks |-> chunks,
                               current_chunk |->
                                   last_sentence \o <<" ">> \o sentence \o <<" ">>,
                               current_size |->
                                   Len(last_sentence) + sentence_len + 2]
                         ELSE [chunks |-> chunks,
                               current_chunk |-> sentence \o <<" ">>,
                               current_size |-> sentence_len + 1],
                         page_num, max_chunk_size)

\* AdaptiveChunker._chunk_paragraph
_chunk_paragraph(text, page_num, max_chunk_size) ==
    LET sentences == SplitSentences(text, 0, 0)
        st == ParagraphLoop(sentences, 1,
                 [chunks |-> <<>>, current_chunk |-> <<>>, current_size |-> 0],
                 page_num, max_chunk_size)
        chunks == SaveCurrent(st.chunks, st.current_chunk, "paragraph", page_num)
    IN  IF chunks # <<>> THEN chunks
        ELSE <<Chunk(text, "paragraph", <<page_num>>, Len(text), FALSE)>>

\* the lookahead (?=(?:^|\n)\s*(?:\d+\.|[-*])\s+) holds at position p (no
\* MULTILINE: ^ is the start of the text only)
ListItemStart(s, p) ==
    /\ p = 0 \/ (p < Len(s) /\ s[p + 1] = NL)
    /\ ListMarkerAt(s, SkipClass(s, p, WS))

\* re.split on that lookahead: the text is cut at every position where it
\* holds
RECURSIVE SplitItems(_, _, _)
SplitItems(s, start, p) ==
    IF p >= Len(s) THEN <<Slice(s, start, Len(s))>>
    ELSE IF ListItemStart(s, p)
         THEN <<Slice(s, start, p)>> \o SplitItems(s, p, p + 1)
         ELSE SplitItems(s, start, p + 1)

\* [item.strip() for item in items if item.strip()]
RECURSIVE StripNonEmpty(_)
StripNonEmpty(items) ==
    IF items = <<>> THEN <<>>
    ELSE (IF Strip(Head(items)) = <<>> THEN <<>> ELSE <<Strip(Head(items))>>)
         \o StripNonEmpty(Tail(items))

\* the for loop of _chunk_list from item i on
RECURSIVE ListLoop(_, _, _, _, _)
ListLoop(items, i, st, page_num, max_chunk_size) ==
    IF i > Len(items) THEN st
    ELSE LET item == items[i]
             item_len == Len(item)
         IN  IF st.current_size + item_len <= max_chunk_size
             THEN ListLoop(items, i + 1,
                     [st EXCEPT !.current_chunk = @ \o item \o <<NL>>,
                                !.current_size = @ + item_len + 1],
                     page_num, max_chunk_size)
             ELSE ListLoop(items, i + 1,
                     [chunks |-> SaveCurrent(st.chunks, st.current_chunk,
                                             "list", page_num),
                      current_chunk |-> item \o <<NL>>,
                      current_size |-> item_len + 1],
                     page_num, max_chunk_size)

\* AdaptiveChunker._chunk_list
_chunk_list(text, page_num, max_chunk_size) ==
    LET items == StripNonEmpty(SplitItems(text, 0, 0))
        st == ListLoop(items, 1,
                 [chunks |-> <<>>, current_chunk |-> <<>>, current_size |-> 0],
                 page_num, max_chunk_size)
        chunks == SaveCurrent(st.chunks, st.current_chunk, "list", page_num)
    IN  IF chunks # <<>> THEN chunks
        ELSE <<Chunk(text, "list", <<page_num>>, Len(text), FALSE)>>

\* AdaptiveChunker._chunk_element
_chunk_element(element, page_num, max_chunk_size) ==
    LET text == element.text
    IN  IF element.type = "table"
        THEN <<Chunk(text, "table", <<page_num>>, Len(text), TRUE)>>
        ELSE IF element.type = "paragraph" /\ is_critical_paragraph(text)
        THEN <<Chunk(text, "paragraph", <<page_num>>, Len(text), TRUE)>>
        ELSE IF element.type = "heading"
        THEN <<Chunk(text, "heading", <<page_num>>, Len(text), TRUE)>>
        ELSE IF element.type = "list"
        THEN IF Len(text) <= max_chunk_size
             THEN <<Chunk(text, "list", <<page_num>>, Len(text), FALSE)>>
             ELSE _chunk_list(text, page_num, max_chunk_size)
        ELSE IF Len(text) <= max_chunk_size
             THEN <<Chunk(text, "paragraph", <<page_num>>, Len(text), FALSE)>>
             ELSE _chunk_paragraph(text, page_num, max_chunk_size)

\* `for element in elements: chunks.extend(self._chunk_element(element, page_num))`
RECURSIVE ChunkElements(_, _, _)
ChunkElements(elements, page_num, max_chunk_size) ==
    IF elements = <<>> THEN <<>>
    ELSE _chunk_element(Head(elements), page_num, max_chunk_size)
         \o ChunkElements(Tail(elements), page_num, max_chunk_size)

(***************************************************************************)
(* AdaptiveChunker: notes                                                  *)
(***************************************************************************)
\* f"{note_number} - {note_title}\n\n"
NoteHeader(note_number, note_title) ==
    note_number \o <<" ", "-", " ">> \o note_title \o <<NL, NL>>

\* page_numbers[0] if page_numbers else 1
FirstPageOr1(page_numbers) ==
    IF page_numbers # <<>> THEN page_numbers[1] ELSE 1

\* the `for pc in para_chunks` rewrite of _chunk_note_subsections
AsNoteParagraphs(para_chunks, note_number, sub_note) ==
    [i \in 1..Len(para_chunks) |->
        [para_chunks[i] EXCEPT !.note_number = note_number,
                               !.sub_note = sub_note,
                               !.parent_note = note_number,
                               !.hierarchy_level = 2,
                               !.chunk_type = "note_paragraph"]]

\* the sub-section boundaries of _chunk_note_subsections
SubSectionBoundaries(text) ==
    LET ms == FindSubSections(text, 0)
        bs == [i \in 1..Len(ms) |->
                 [sub_section |-> <<"(">> \o ms[i].g1 \o <<")">>,
                  start_pos   |-> ms[i].start,
                  end_pos     |-> None]]
    IN  SetEndPositions(bs, Len(text))

\* AdaptiveChunker._chunk_note_subsections
_chunk_note_subsections(text, parent_header, note_number, sub_note, page_numbers, max_chunk_size) ==
    LET sub_sections == SubSectionBoundaries(text)
        full_text == parent_header \o text
    IN  IF sub_sections # <<>>
        THEN [i \in 1..Len(sub_sections) |->
                LET sub_sec_text == Strip(Slice(text, sub_sections[i].start_pos,
                                                sub_sections[i].end_pos))
                    full == parent_header \o sub_sec_text
                IN  [Chunk(full, "note_section", page_numbers, Len(full), TRUE)
                        EXCEPT !.note_number = note_number,
                               !.sub_note = sub_note,
                               !.sub_section = sub_sections[i].sub_section,
                               !.hierarchy_level = 2,
                               !.parent_note = note_number]]
        ELSE IF Len(full_text) > max_chunk_size * 2
        THEN AsNoteParagraphs(
                _chunk_paragraph(text, FirstPageOr1(page_numbers), max_chunk_size),
                note_number, sub_note)
        ELSE <<[Chunk(full_text, "note_section", page_numbers, Len(full_text), TRUE)
                   EXCEPT !.note_number = note_number,
                          !.sub_note = sub_note,
                          !.hierarchy_level = 1,
                          !.parent_note = note_number]>>

\* a note_mixed chunk of _chunk_large_note_by_elements
NoteMixedChunk(current_chunk_text, note_number, note_title, page_numbers) ==
    [Chunk(Strip(current_chunk_text), "note_mixed", page_numbers,
           Len(Strip(current_chunk_text)), TRUE)
        EXCEPT !.note_number = note_number,
               !.note_title = note_title,
               !.hierarchy_level = 0,
               !.parent_note = note_number]

\* the for loop of _chunk_large_note_by_elements from element i on; st is
\* [chunks, current_chunk_text, current_chunk_elements]
RECURSIVE LargeNoteLoop(_, _, _, _, _, _, _, _)
LargeNoteLoop(elements, i, st, note_header, note_number, note_title, page_numbers, max_chunk_size) ==
    IF i > Len(elements) THEN st
    ELSE LET element_text == elements[i].text
             flush == /\ Len(st.current_chunk_text) + Len(element_text)
                            > max_chunk_size
                      /\ st.current_chunk_elements # <<>>
             st1 == IF flush
                    THEN [chunks |-> Append(st.chunks,
                                        NoteMixedChunk(st.current_chunk_text,
                                            note_number, note_title, page_numbers)),
                          current_chunk_text |-> note_header,
                          current_chunk_elements |-> <<>>]
                    ELSE st
         IN  LargeNoteLoop(elements, i + 1,
                [st1 EXCEPT !.current_chunk_text = @ \o <<NL, NL>> \o element_text,
                            !.current_chunk_elements = Append(@, elements[i].type)],
                note_header, note_number, note_title, page_numbers, max_chunk_size)

\* AdaptiveChunker._chunk_large_note_by_elements
_chunk_large_note_by_elements(note_text, note_header, note_number, note_title, page_numbers, max_chunk_size) ==
    LET elements == _extract_elements(note_text)
        st == LargeNoteLoop(elements, 1,
                 [chunks |-> <<>>, current_chunk_text |-> note_header,
                  current_chunk_elements |-> <<>>],
                 note_header, note_number, note_title, page_numbers, max_chunk_size)
        chunks == IF Strip(st.current_chunk_text) # Strip(note_header)
                  THEN Append(st.chunks,
                           NoteMixedChunk(st.current_chunk_text, note_number,
                                          note_title, page_numbers))
                  ELSE st.chunks
    IN  IF chunks # <<>> THEN chunks
        ELSE <<[Chunk(note_header \o note_text, "note_complete", page_numbers,
                      Len(note_header \o note_text), TRUE)
                   EXCEPT !.note_number = note_number,
                          !.note_title = note_title,
                          !.hierarchy_level = 0]>>

\* the body of `for sub_note_info in hierarchy['sub_notes']` in _chunk_note
SubNoteChunks(note_text_clean, sub_note_info, note_header, note_number, note_title, page_numbers, max_chunk_size) ==
    LET sub_note_text == Strip(Slice(note_text_clean, sub_note_info.start_pos,
                                     sub_note_info.end_pos))
        full_sub_note_text == note_header \o sub_note_text
    IN  IF Len(full_sub_note_text) > max_chunk_size
        THEN _chunk_note_subsections(sub_note_text, note_header, note_number,
                 sub_note_info.sub_note, page_numbers, max_chunk_size)
        ELSE <<[Chunk(full_sub_note_text, "note_section", page_numbers,
                      Len(full_sub_note_text), TRUE)
                   EXCEPT !.note_number = note_number,
                          !.sub_note = sub_note_info.sub_note,
                          !.note_title = note_title,
                          !.hierarchy_level = 1,
                          !.parent_note = note_number]>>

RECURSIVE SubNotesLoop(_, _, _, _, _, _, _, _)
SubNotesLoop(sub_notes, i, note_text_clean, note_header, note_number, note_title, page_numbers, max_chunk_size) ==
    IF i > Len(sub_notes) THEN <<>>
    ELSE SubNoteChunks(note_text_clean, sub_notes[i], note_header, note_number,
                       note_title, page_numbers, max_chunk_size)
         \o SubNotesLoop(sub_notes, i + 1, note_text_clean, note_header,
                         note_number, note_title, page_numbers, max_chunk_size)

\* a variant of _chunk_note that keeps a small note's text untrimmed
ChunkNoteUntrimmed(note_text, note_number, note_title, page_numbers, max_chunk_size) ==
    LET note_text_clean == Strip(note_text)
        sub_notes == parse_note_hierarchy(note_text_clean, note_number)
        note_header == NoteHeader(note_number, note_title)
    IN  IF Len(note_text_clean) <= max_chunk_size
        THEN <<[Chunk(note_text, "note_complete", page_numbers, Len(note_text), TRUE)
                   EXCEPT !.note_number = note_number,
                          !.note_title = note_title,
                          !.hierarchy_level = 0,
                          !.is_complete_note = TRUE]>>
        ELSE IF sub_notes # <<>>
        THEN SubNotesLoop(sub_notes, 1, note_text_clean, note_header, note_number,
                          note_title, page_numbers, max_chunk_size)
        ELSE _chunk_large_note_by_elements(note_text_clean, note_header,
                 note_number, note_title, page_numbers, max_chunk_size)

\* AdaptiveChunker._chunk_note
_chunk_note(note_text, note_number, note_title, page_numbers, max_chunk_size) ==
    LET note_text_clean == Strip(note_text)
        note_len == Len(note_text_clean)
        sub_notes == parse_note_hierarchy(note_text_clean, note_number)
        note_header == NoteHeader(note_number, note_title)
    IN  IF note_len <= max_chunk_size
        THEN <<[Chunk(note_text_clean, "note_complete", page_numbers, note_len, TRUE)
                   EXCEPT !.note_number = note_number,
                          !.note_title = note_title,
                          !.hierarchy_level = 0,
                          !.is_complete_note = TRUE]>>
        ELSE IF sub_notes # <<>>
        THEN SubNotesLoop(sub_notes, 1, note_text_clean, note_header, note_number,
                          note_title, page_numbers, max_chunk_size)
        ELSE _chunk_large_note_by_elements(note_text_clean, note_header,
                 note_number, note_title, page_numbers, max_chunk_size)

(***************************************************************************)
(* deduplication_utils.py.  A score is an integer number of hundredths; a  *)
(* similarity threshold is an integer number of hundredths too.            *)
(***************************************************************************)
\* the length of the common run of a from position i and b from position j,
\* inside a[..ahi) and b[..bhi)
RECURSIVE CommonRun(_, _, _, _, _, _)
CommonRun(a, b, i, j, ahi, bhi) ==
    IF i < ahi /\ j < bhi /\ a[i + 1] = b[j + 1]
    THEN 1 + CommonRun(a, b, i + 1, j + 1, ahi, bhi)
    ELSE 0

\* difflib.SequenceMatcher.find_longest_match without junk: the longest block
\* a[i:i+k] = b[j:j+k] in a[alo:ahi], b[blo:bhi]; of the longest, the one
\* that starts earliest in a, and of those the one that starts earliest in b
FindLongestMatch(a, b, alo, ahi, blo, bhi) ==
    LET starts == (alo..(ahi - 1)) \X (blo..(bhi - 1))
        size(st) == CommonRun(a, b, st[1], st[2], ahi, bhi)
        best == CHOOSE st \in starts :
                    \A o \in starts :
                        \/ size(o) < size(st)
                        \/ size(o) = size(st) /\ (st[1] < o[1] \/ (st[1] = o[1] /\ st[2] <= o[2]))
    IN  [i |-> best[1], j |-> best[2], k |-> size(best)]

\* the number of matched characters of get_matching_blocks: the longest
\* match, then the same to its left and to its right
RECURSIVE MatchedChars(_, _, _, _, _, _)
MatchedChars(a, b, alo, ahi, blo, bhi) ==
    IF alo >= ahi \/ blo >= bhi THEN 0
    ELSE LET m == FindLongestMatch(a, b, alo, ahi, blo, bhi)
         IN  IF m.k = 0 THEN 0
             ELSE m.k + MatchedChars(a, b, alo, m.i, blo, m.j)
                      + MatchedChars(a, b, m.i + m.k, ahi, m.j + m.k, bhi)

\* difflib.SequenceMatcher(None, a, b).ratio() >= threshold / 100, where
\* ratio() is 2.0 * matches / (len(a) + len(b)), and 1.0 for two empty texts
RatioAtLeast(a, b, threshold) ==
    IF Len(a) + Len(b) = 0 THEN 100 >= threshold
    ELSE 200 * MatchedChars(a, b, 0, Len(a), 0, Len(b)) >= threshold * (Len(a) + Len(b))

\* a variant of the normalisation that keeps the case
NormalizedKeepCase(text) == Strip(text)

\* text.lower().strip()
Normalized(text) == Strip(ToLower(text))

\* a variant of the sort that reverses the order of results of equal score
\* (an ascending sort followed by a reversal)
RECURSIVE SortedTiesReversed(_)
SortedTiesReversed(results) ==
    IF results = <<>> THEN <<>>
    ELSE LET rest == SortedTiesReversed(Tail(results))
             x == Head(results)
             n == Cardinality({i \in 1..Len(rest) : rest[i].score >= x.score})
         IN  SubSeq(rest, 1, n) \o <<x>> \o SubSeq(rest, n + 1, Len(rest))

\* sorted(results, key=lambda x: x.score, reverse=True): stable, so results
\* of equal score keep their order
RECURSIVE SortedByScoreDesc(_)
SortedByScoreDesc(results) ==
    IF results = <<>> THEN <<>>
    ELSE LET rest == SortedByScoreDesc(Tail(results))
             x == Head(results)
             n == Cardinality({i \in 1..Len(rest) : rest[i].score > x.score})
         IN  SubSeq(rest, 1, n) \o <<x>> \o SubSeq(rest, n + 1, Len(rest))

\* a variant of the similarity loop that compares a result with the last
\* kept result only
RECURSIVE SimilarityLoopLastOnly(_, _, _, _, _)
SimilarityLoopLastOnly(sorted_results, i, deduplicated, similarity_threshold, max_chunks) ==
    IF i > Len(sorted_results) THEN deduplicated
    ELSE LET result == sorted_results[i]
             is_duplicate ==
                 /\ deduplicated # <<>>
                 /\ RatioAtLeast(Normalized(result.chunk_text),
                                 Normalized(deduplicated[Len(deduplicated)].chunk_text),
                                 similarity_threshold)
         IN  IF is_duplicate
             THEN SimilarityLoopLastOnly(sorted_results, i + 1, deduplicated,
                                         similarity_threshold, max_chunks)
             ELSE IF Len(deduplicated) + 1 >= max_chunks
                  THEN Append(deduplicated, result)
                  ELSE SimilarityLoopLastOnly(sorted_results, i + 1, Append(deduplicated, result),
                                              similarity_threshold, max_chunks)

\* the for loop of deduplicate_by_similarity from result i on, with the
\* results kept so far
RECURSIVE SimilarityLoop(_, _, _, _, _)
SimilarityLoop(sorted_results, i, deduplicated, similarity_threshold, max_chunks) ==
    IF i > Len(sorted_results) THEN deduplicated
    ELSE LET result == sorted_results[i]
             is_duplicate ==
                 \E k \in 1..Len(deduplicated) :
                     RatioAtLeast(Normalized(result.chunk_text),
                                  Normalized(deduplicated[k].chunk_text),
                                  similarity_threshold)
         IN  IF is_duplicate
             THEN SimilarityLoop(sorted_results, i + 1, deduplicated,
                                 similarity_threshold, max_chunks)
             ELSE IF Len(deduplicated) + 1 >= max_chunks
                  THEN Append(deduplicated, result)
                  ELSE SimilarityLoop(sorted_results, i + 1, Append(deduplicated, result),
                                      similarity_threshold, max_chunks)

\* deduplicate_by_similarity
deduplicate_by_similarity(results, similarity_threshold, max_chunks) ==
    IF results = <<>> THEN <<>>
    ELSE SimilarityLoop(SortedByScoreDesc(results), 1, <<>>, similarity_threshold, max_chunks)

\* a variant of the page loop that lets one result too many through
\* (`page_counts[primary_page] <= max_per_page`)
RECURSIVE PageLoopOneMore(_, _, _, _, _)
PageLoopOneMore(results, i, filtered, page_counts, max_per_page) ==
    IF i > Len(results) THEN filtered
    ELSE LET result == results[i]
             primary_page == IF result.page_numbers # <<>> THEN result.page_numbers[1] ELSE -1
             count == IF primary_page \in DOMAIN page_counts THEN page_counts[primary_page] ELSE 0
         IN  IF result.page_numbers = <<>>
             THEN PageLoopOneMore(results, i + 1, Append(filtered, result), page_counts, max_per_page)
             ELSE IF count <= max_per_page
             THEN PageLoopOneMore(results, i + 1, Append(filtered, result),
                                  [p \in DOMAIN page_counts \cup {primary_page} |->
                                      IF p = primary_page THEN count + 1 ELSE page_counts[p]],
                                  max_per_page)
             ELSE PageLoopOneMore(results, i + 1, filtered, page_counts, max_per_page)

\* the for loop of filter_by_page_diversity from result i on; page_counts
\* is the set of <<page, count>> pairs of the dict
RECURSIVE PageLoop(_, _, _, _, _)
PageLoop(results, i, filtered, page_counts, max_per_page) ==
    IF i > Len(results) THEN filtered
    ELSE LET result == results[i]
             primary_page == IF result.page_numbers # <<>> THEN result.page_numbers[1] ELSE -1
             count == IF primary_page \in DOMAIN page_counts THEN page_counts[primary_page] ELSE 0
         IN  IF result.page_numbers = <<>>
             THEN PageLoop(results, i + 1, Append(filtered, result), page_counts, max_per_page)
             ELSE IF count < max_per_page
             THEN PageLoop(results, i + 1, Append(filtered, result),
                           [p \in DOMAIN page_counts \cup {primary_page} |->
                               IF p = primary_page THEN count + 1 ELSE page_counts[p]],
                           max_per_page)
             ELSE PageLoop(results, i + 1, filtered,
                           [p \in DOMAIN page_counts \cup {primary_page} |->
                               IF p = primary_page THEN count ELSE page_counts[p]],
                           max_per_page)

\* filter_by_page_diversity
filter_by_page_diversity(results, max_per_page) ==
    IF results = <<>> THEN <<>>
    ELSE PageLoop(results, 1, <<>>, [p \in {} |-> 0], max_per_page)

\* a variant of the slice that keeps one element more
TruncateOneMore(seq, n) ==
    SubSeq(seq, 1, IF n + 1 < Len(seq) THEN n + 1 ELSE Len(seq))

\* seq[:n] of Python for any integer n
Truncate(seq, n) ==
    IF n >= 0 THEN SubSeq(seq, 1, IF n < Len(seq) THEN n ELSE Len(seq))
    ELSE SubSeq(seq, 1, IF Len(seq) + n > 0 THEN Len(seq) + n ELSE 0)

\* smart_deduplicate
smart_deduplicate(results, similarity_threshold, max_chunks, max_per_page) ==
    IF results = <<>> THEN <<>>
    ELSE LET unique_chunks == deduplicate_by_similarity(results, similarity_threshold, max_chunks * 2)
             diverse_chunks == filter_by_page_diversity(unique_chunks, max_per_page)
         IN  Truncate(diverse_chunks, max_chunks)

\* RetrievalResult
RetrievalResult(chunk_id, chunk_text, chunk_type, section_types, note_number, page_numbers, score, retrieval_tier) ==
    [chunk_id |-> chunk_id, chunk_text |-> chunk_text, chunk_type |-> chunk_type,
     section_types |-> section_types, note_number |-> note_number,
     page_numbers |-> page_numbers, score |-> score,
     retrieval_tier |-> retrieval_tier]

(***************************************************************************)
(* hybrid_retrieval.py: HybridRetrievalEngine                              *)
(***************************************************************************)
\* the vocabulary of _rerank_by_classification: <<keyword, section type>>
HintVocabulary == {
    <<<<"f","a","i","r"," ","v","a","l","u","e">>, "fair_value">>,
    <<<<"i","n","v","e","s","t","m","e","n","t"," ","p","r","o","p","e","r","t">>, "investment_property">>,
    <<<<"b","a","l","a","n","c","e"," ","s","h","e","e","t">>, "balance_sheet">>,
    <<<<"i","n","c","o","m","e"," ","s","t","a","t","e","m","e","n","t">>, "income_statement">>,
    <<<<"p","r","o","f","i","t">>, "income_statement">>,
    <<<<"c","a","s","h"," ","f","l","o","w">>, "cash_flow">>,
    <<<<"n","o","t","e">>, "notes">>,
    <<<<"b","o","r","r","o","w","i","n","g">>, "borrowings">>,
    <<<<"d","e","b","t">>, "borrowings">>,
    <<<<"e","q","u","i","t","y">>, "equity">> }

\* query_section_hints, as the set the `in` tests read
QuerySectionHints(query, section_filters) ==
    LET query_lower == ToLower(query)
    IN  {v[2] : v \in {w \in HintVocabulary : Contains(query_lower, w[1])}}
        \cup Range(section_filters)

\* section_match_count of one result
SectionMatchCount(section_types, hints) ==
    Cardinality({i \in 1..Len(section_types) : section_types[i] \in hints})

\* a variant of the boost with 10% per matching section
BoostedByTenth(score, section_match_count) == (score * (10 + section_match_count)) \div 10

\* score * (1.0 + section_match_count * 0.2); scores are multiples of 0.05
Boosted(score, section_match_count) == (score * (5 + section_match_count)) \div 5

\* the `for result in results` loop of _rerank_by_classification on one
\* result: the object is changed in place
RerankedResult(result, hints) ==
    LET section_match_count == SectionMatchCount(result.section_types, hints)
    IN  IF section_match_count > 0
        THEN [result EXCEPT !.score = Boosted(@, section_match_count),
                            !.retrieval_tier = "re-ranked"]
        ELSE result

\* HybridRetrievalEngine._rerank_by_classification: the list it returns
_rerank_by_classification(results, query, section_filters) ==
    LET hints == QuerySectionHints(query, section_filters)
    IN  SortedByScoreDesc([i \in 1..Len(results) |-> RerankedResult(results[i], hints)])

\* a variant of the merge loop without the seen_chunk_ids test
MergeLoopKeepAll(results, merged) == merged \o results

\* the loop `for result in ...: if result.chunk_id not in seen_chunk_ids`
RECURSIVE MergeLoop(_, _)
MergeLoop(results, merged) ==
    IF results = <<>> THEN merged
    ELSE MergeLoop(Tail(results),
                   IF \E k \in 1..Len(merged) : merged[k].chunk_id = Head(results).chunk_id
                   THEN merged
                   ELSE Append(merged, Head(results)))

\* a variant of the merge that keeps the vector tier only
MergeVectorOnly(vector_results, keyword_results) ==
    MergeLoop(vector_results, <<>>)

\* a variant of the merge that takes the keyword tier first
MergeKeywordFirst(vector_results, keyword_results) ==
    MergeLoop(vector_results, MergeLoop(keyword_results, <<>>))

\* HybridRetrievalEngine._merge_results
_merge_results(vector_results, keyword_results) ==
    MergeLoop(keyword_results, MergeLoop(vector_results, <<>>))

\* the rows of document_chunks_v2 for the company: chunk_id |-> row
Corpus == <<
    [chunk_text |-> <<"a","b"," ","c","d">>, section_types |-> <<"fair_value">>, page_numbers |-> <<1>>],
    [chunk_text |-> <<"x","y">>, section_types |-> <<"notes">>, page_numbers |-> <<1>>],
    [chunk_text |-> <<"a","b">>, section_types |-> <<"fair_value", "notes">>, page_numbers |-> <<>>],
    [chunk_text |-> <<"m","n">>, section_types |-> <<"equity">>, page_numbers |-> <<1, 2>>] >>

\* what the table holds for a row of the corpus: whether the row is stored
\* for the company, its cosine similarity to the query, and its ts_rank
\* (0: the row does not match the full-text query)
IndexEntries ==
    {[stored |-> FALSE, similarity |-> 0, rank |-> 0]}
    \cup [stored : {TRUE}, similarity : {50, 80}, rank : {0, 50}]

\* section_types && section_filters, when filters are given
PassesFilter(row, section_filters) ==
    section_filters = <<>> \/ Range(row.section_types) \cap Range(section_filters) # {}

\* rows as RetrievalResult objects in chunk_id order
RECURSIVE RowsAsResults(_, _, _, _)
RowsAsResults(index, section_filters, tier, i) ==
    IF i > Len(Corpus) THEN <<>>
    ELSE LET score == IF tier = "vector" THEN index[i].similarity ELSE index[i].rank
             matches == index[i].stored /\ (tier = "vector" \/ index[i].rank > 0)
         IN  (IF matches /\ PassesFilter(Corpus[i], section_filters)
              THEN <<RetrievalResult(i, Corpus[i].chunk_text, "paragraph",
                                     Corpus[i].section_types, None,
                                     Corpus[i].page_numbers, score, tier)>>
              ELSE <<>>)
             \o RowsAsResults(index, section_filters, tier, i + 1)

\* the SELECT of a tier: the vector tier reads every stored row, the keyword
\* tier the rows that match the full-text query; WHERE the filters hold,
\* ORDER BY score DESC, LIMIT limit (rows of equal score in chunk_id order)
IndexTopK(index, section_filters, tier, limit) ==
    Truncate(SortedByScoreDesc(RowsAsResults(index, section_filters, tier, 1)), limit)

(***************************************************************************)
(* State: AdaptiveChunker.chunk_document, smart_deduplicate and            *)
(* HybridRetrievalEngine.retrieve, each a state machine of its own.        *)
(***************************************************************************)
VARIABLES
    pages,              \* the argument: sequence of [page_num, page_text]
    max_chunk_size,     \* self.max_chunk_size
    enable_note_aware,  \* self.enable_note_aware
    full_text,          \* _chunk_document_note_aware: full_text
    page_boundaries,    \* _chunk_document_note_aware: page_boundaries
    note_boundaries,    \* _chunk_document_note_aware: note_boundaries
    non_note_ranges,    \* _chunk_document_note_aware: non_note_ranges
    chunks,             \* the chunks collected so far
    cpc,                \* position in chunk_document
    ci                  \* index of the running for loop (1-based)

chunkerVars == <<pages, max_chunk_size, enable_note_aware, full_text,
                 page_boundaries, note_boundaries, non_note_ranges, chunks,
                 cpc, ci>>

\* smart_deduplicate: one call step by step, then a second call on its output
VARIABLES
    d_results,          \* the argument results
    d_threshold,        \* similarity_threshold, in hundredths
    d_max_chunks,       \* max_chunks
    d_max_per_page,     \* max_per_page
    d_unique,           \* unique_chunks
    d_diverse,          \* diverse_chunks
    d_out,              \* the list returned
    d_out2,             \* the list returned by the second call
    dpc                 \* position

dedupVars == <<d_results, d_threshold, d_max_chunks, d_max_per_page, d_unique,
               d_diverse, d_out, d_out2, dpc>>

\* HybridRetrievalEngine.retrieve
VARIABLES
    query,                  \* retrieve arguments
    top_k,
    section_filters,
    min_vector_results,
    enable_deduplication,
    similarity_threshold,
    index,                  \* what the vector and the full-text index hold
    conn_status,            \* outcome of _ensure_connection
    vector_status,          \* outcome of the vector tier
    keyword_status,         \* outcome of the keyword tier
    vector_results,
    keyword_results,
    combined,
    reranked,
    returned,               \* the list retrieve returns
    rpc                     \* position in retrieve

retrieveVars == <<query, top_k, section_filters, min_vector_results,
                  enable_deduplication, similarity_threshold, index,
                  conn_status, vector_status, keyword_status, vector_results,
                  keyword_results, combined, reranked, returned, rpc>>

retrieveArgs == <<query, top_k, section_filters, min_vector_results,
                  enable_deduplication, similarity_threshold, index>>

\* the engine's one cursor and the threads that use it
VARIABLES
    sharing,                \* "tiers": the two lookups of one call side by side;
                            \* "calls": two retrieve calls on the thread pool
    call_index,             \* call |-> what the table holds for the call's query
    cursor,                 \* self.cursor: the rows of the last statement
                            \* executed that no fetch has taken yet
    thread_statement,       \* thread |-> position in its list of statements
    thread_phase,           \* thread |-> "execute", "fetch", "finish", "done"
    thread_vector_rows,     \* thread |-> rows of `rows = self.cursor.fetchall()`
                            \* in _vector_search
    thread_keyword_rows,    \* thread |-> the same in _keyword_search
    thread_returned         \* thread |-> the list its retrieve returned

cursorVars == <<sharing, call_index, cursor, thread_statement, thread_phase,
                thread_vector_rows, thread_keyword_rows, thread_returned>>

VARIABLES
    queues,          \* IngestionBroadcaster.queues: upload_id -> asyncio.Queue
    history,         \* IngestionBroadcaster.history: upload_id -> deque(maxlen=50)
    subscribers,     \* IngestionBroadcaster.subscribers: upload_id -> count
    callbacks,       \* the event loop's callbacks scheduled by call_soon_threadsafe
    broadcast_count, \* the number of broadcast calls made, the payload's timestamp
    ws_upload,       \* websocket_ingestion_logs: the upload_id of each connection
    ws_phase,        \* where each connection's subscribe generator stands
    ws_snapshot,     \* the deque as it was when `for msg in self.history[...]` began
    ws_position,     \* the number of history entries that loop has yielded
    ws_received      \* the log entries yielded to each connection, in order

broadcastVars == <<queues, history, subscribers, callbacks, broadcast_count,
                   ws_upload, ws_phase, ws_snapshot, ws_position, ws_received>>

\* full_text after the first n pages: each page text followed by "\n\n"
RECURSIVE FullTextOf(_, _)
FullTextOf(pgs, n) ==
    IF n = 0 THEN <<>>
    ELSE FullTextOf(pgs, n - 1) \o pgs[n].page_text \o <<NL, NL>>

\* page_boundaries: where each page lies in full_text
PageBoundariesOf(pgs) ==
    [i \in 1..Len(pgs) |->
        [page_num  |-> pgs[i].page_num,
         start_pos |-> Len(FullTextOf(pgs, i - 1)),
         end_pos   |-> Len(FullTextOf(pgs, i - 1)) + Len(pgs[i].page_text)]]

\* the pages a range [start_pos, end_pos) overlaps:
\* not (end_pos <= page.start_pos or start_pos >= page.end_pos)
RECURSIVE PagesOverlapping(_, _, _)
PagesOverlapping(pbs, start_pos, end_pos) ==
    IF pbs = <<>> THEN <<>>
    ELSE (IF ~(end_pos <= Head(pbs).start_pos \/ start_pos >= Head(pbs).end_pos)
          THEN <<Head(pbs).page_num>> ELSE <<>>)
         \o PagesOverlapping(Tail(pbs), start_pos, end_pos)

\* the gaps between consecutive notes, from note i on
RECURSIVE GapsBetween(_, _)
GapsBetween(nbs, i) ==
    IF i >= Len(nbs) THEN <<>>
    ELSE (IF nbs[i + 1].start_pos > nbs[i].end_pos
          THEN <<[start_pos |-> nbs[i].end_pos, end_pos |-> nbs[i + 1].start_pos]>>
          ELSE <<>>)
         \o GapsBetween(nbs, i + 1)

\* step 4 of _chunk_document_note_aware: the ranges outside every note
NonNoteRangesOf(nbs, textLen) ==
    (IF nbs # <<>> /\ nbs[1].start_pos > 0
     THEN <<[start_pos |-> 0, end_pos |-> nbs[1].start_pos]>> ELSE <<>>)
    \o GapsBetween(nbs, 1)
    \o (IF nbs # <<>> /\ nbs[Len(nbs)].end_pos < textLen
        THEN <<[start_pos |-> nbs[Len(nbs)].end_pos, end_pos |-> textLen]>>
        ELSE <<>>)

\* a variant of the note loop body that reads on to the end of the text
\* instead of stopping at the note's end_pos
NoteChunksToEndOfText(text, pbs, note_info, maxSize) ==
    _chunk_note(Slice(text, note_info.start_pos, Len(text)),
                note_info.note_number, note_info.note_title,
                PagesOverlapping(pbs, note_info.start_pos, note_info.end_pos),
                maxSize)

\* the body of `for note_info in note_boundaries`
NoteChunksOf(text, pbs, note_info, maxSize) ==
    _chunk_note(Slice(text, note_info.start_pos, note_info.end_pos),
                note_info.note_number, note_info.note_title,
                PagesOverlapping(pbs, note_info.start_pos, note_info.end_pos),
                maxSize)

\* the body of `for start_pos, end_pos in non_note_ranges`
NonNoteChunksOf(text, pbs, range, maxSize) ==
    LET non_note_text == Strip(Slice(text, range.start_pos, range.end_pos))
        found == PagesOverlapping(pbs, range.start_pos, range.end_pos)
        section_pages == IF found = <<>> THEN <<1>> ELSE found
    IN  IF non_note_text = <<>> THEN <<>>
        ELSE ChunkElements(_extract_elements(non_note_text), section_pages[1], maxSize)

\* the blocks documents are built from
Blocks == {
    <<"N","O","T","E"," ","1"," ","-"," ","T",".">>,
    <<"N","O","T","E"," ","2",":"," ","U",".">>,
    <<"1",".","1"," ","S","."," ","x","x"," ","y","y",".">>,
    <<"(","a",")"," ","P","."," ","z","z",".">>,
    <<"a","s"," ","a","t"," ","x",".">>,
    <<"a","a"," ","b","b","."," ","c","c"," ","d","d","."," ","e","e",".">>,
    <<"-"," ","i","\n","-"," ","j","j","j","j","j","j","j","j","j","j","j","j","j">>,
    <<"2",".","1"," ","W","."," ","v","v",".">> }

\* the largest number of blocks in a document
MaxBlocks == 3

\* the values of max_chunk_size tried
ChunkSizes == {12, 24}

\* the blocks of doc from position i on, joined by blank lines
RECURSIVE JoinBlocks(_, _, _)
JoinBlocks(doc, i, j) ==
    IF i > j THEN <<>>
    ELSE IF i = j THEN doc[i]
    ELSE doc[i] \o <<NL, NL>> \o JoinBlocks(doc, i + 1, j)

\* the pages of a document whose page break (if any) follows block brk
PagesOfDoc(doc, brk) ==
    IF brk = 0
    THEN <<[page_num |-> 7, page_text |-> JoinBlocks(doc, 1, Len(doc))]>>
    ELSE <<[page_num |-> 7, page_text |-> JoinBlocks(doc, 1, brk)],
           [page_num |-> 8, page_text |-> JoinBlocks(doc, brk + 1, Len(doc))]>>

Docs == UNION {[1..n -> Blocks] : n \in 1..MaxBlocks}

ChunkerIdle ==
    /\ pages = <<>>
    /\ max_chunk_size = 0
    /\ enable_note_aware = FALSE
    /\ full_text = <<>>
    /\ page_boundaries = <<>>
    /\ note_boundaries = <<>>
    /\ non_note_ranges = <<>>
    /\ chunks = <<>>
    /\ cpc = "idle"
    /\ ci = 0

\* AdaptiveChunker(max_chunk_size, enable_note_aware) and the pages handed to
\* chunk_document
InitChunker ==
    /\ \E doc \in Docs : \E brk \in 0..(Len(doc) - 1) : pages = PagesOfDoc(doc, brk)
    /\ max_chunk_size \in ChunkSizes
    /\ enable_note_aware \in BOOLEAN
    /\ full_text = <<>>
    /\ page_boundaries = <<>>
    /\ note_boundaries = <<>>
    /\ non_note_ranges = <<>>
    /\ chunks = <<>>
    /\ cpc = "start"
    /\ ci = 1

\* chunk_document, enable_note_aware = False: straight to the page loop
StartPlain ==
    /\ cpc = "start"
    /\ ~enable_note_aware
    /\ cpc' = "pages"
    /\ UNCHANGED <<pages, max_chunk_size, enable_note_aware, full_text,
                   page_boundaries, note_boundaries, non_note_ranges, chunks, ci>>
    /\ UNCHANGED <<dedupVars, retrieveVars, cursorVars, broadcastVars>>

\* _chunk_document_note_aware steps 1 and 2: build full_text, detect notes
DetectNotes ==
    /\ cpc = "start"
    /\ enable_note_aware
    /\ full_text' = FullTextOf(pages, Len(pages))
    /\ page_boundaries' = PageBoundariesOf(pages)
    /\ note_boundaries' = detect_note_boundaries(full_text')
    /\ cpc' = IF note_boundaries' = <<>> THEN "pages" ELSE "notes"
    /\ UNCHANGED <<pages, max_chunk_size, enable_note_aware, non_note_ranges,
                   chunks, ci>>
    /\ UNCHANGED <<dedupVars, retrieveVars, cursorVars, broadcastVars>>

\* one iteration of `for page_num, page_text in pages`
ChunkPage ==
    /\ cpc = "pages"
    /\ ci <= Len(pages)
    /\ chunks' = chunks \o ChunkElements(_extract_elements(pages[ci].page_text),
                                         pages[ci].page_num, max_chunk_size)
    /\ ci' = ci + 1
    /\ UNCHANGED <<pages, max_chunk_size, enable_note_aware, full_text,
                   page_boundaries, note_boundaries, non_note_ranges, cpc>>
    /\ UNCHANGED <<dedupVars, retrieveVars, cursorVars, broadcastVars>>

\* one iteration of `for note_info in note_boundaries` (step 3)
ChunkNote ==
    /\ cpc = "notes"
    /\ ci <= Len(note_boundaries)
    /\ chunks' = chunks \o NoteChunksOf(full_text, page_boundaries,
                                        note_boundaries[ci], max_chunk_size)
    /\ ci' = ci + 1
    /\ UNCHANGED <<pages, max_chunk_size, enable_note_aware, full_text,
                   page_boundaries, note_boundaries, non_note_ranges, cpc>>
    /\ UNCHANGED <<dedupVars, retrieveVars, cursorVars, broadcastVars>>

\* step 4: the ranges outside the notes
FindNonNoteRanges ==
    /\ cpc = "notes"
    /\ ci > Len(note_boundaries)
    /\ non_note_ranges' = NonNoteRangesOf(note_boundaries, Len(full_text))
    /\ cpc' = "gaps"
    /\ ci' = 1
    /\ UNCHANGED <<pages, max_chunk_size, enable_note_aware, full_text,
                   page_boundaries, note_boundaries, chunks>>
    /\ UNCHANGED <<dedupVars, retrieveVars, cursorVars, broadcastVars>>

\* one iteration of `for start_pos, end_pos in non_note_ranges`
ChunkNonNote ==
    /\ cpc = "gaps"
    /\ ci <= Len(non_note_ranges)
    /\ chunks' = chunks \o NonNoteChunksOf(full_text, page_boundaries,
                                           non_note_ranges[ci], max_chunk_size)
    /\ ci' = ci + 1
    /\ UNCHANGED <<pages, max_chunk_size, enable_note_aware, full_text,
                   page_boundaries, note_boundaries, non_note_ranges, cpc>>
    /\ UNCHANGED <<dedupVars, retrieveVars, cursorVars, broadcastVars>>

\* `return chunks`
ReturnChunks ==
    /\ \/ cpc = "pages" /\ ci > Len(pages)
       \/ cpc = "gaps" /\ ci > Len(non_note_ranges)
    /\ cpc' = "done"
    /\ UNCHANGED <<pages, max_chunk_size, enable_note_aware, full_text,
                   page_boundaries, note_boundaries, non_note_ranges, chunks, ci>>
    /\ UNCHANGED <<dedupVars, retrieveVars, cursorVars, broadcastVars>>

NextChunker ==
    \/ StartPlain
    \/ DetectNotes
    \/ ChunkPage
    \/ ChunkNote
    \/ FindNonNoteRanges
    \/ ChunkNonNote
    \/ ReturnChunks

(***************************************************************************)
(* Claims about the chunker                                                *)
(***************************************************************************)

IsPrefix(pre, s) == Len(pre) <= Len(s) /\ SubSeq(s, 1, Len(pre)) = pre

\* the blank-line-delimited elements of the input that the chunker
\* classifies as paragraphs and the oracle calls critical
CriticalParagraphsOfInput ==
    {e.text : e \in {x \in UNION {Range(_extract_elements(pages[i].page_text)) : i \in 1..Len(pages)} :
                        x.type = "paragraph" /\ is_critical_paragraph(x.text)}}

\* C1: when chunk_document has returned, every critical paragraph element of
\* the input stands whole in the text of an emitted chunk whose is_critical
\* is true (it was not split, truncated or dropped), whatever max_chunk_size
\* and whichever path was taken.
C1_CriticalParagraphKeptWhole ==
    cpc = "done" =>
        \A t \in CriticalParagraphsOfInput :
            \E k \in 1..Len(chunks) : chunks[k].is_critical /\ Contains(chunks[k].text, t)

\* C2: every emitted chunk with is_critical = false is at most
\* max_chunk_size characters long.
C2_NonCriticalWithinBudget ==
    \A k \in 1..Len(chunks) :
        ~chunks[k].is_critical => Len(chunks[k].text) <= max_chunk_size

\* the text of the document in the boundary's range [start_pos, end_pos)
RangeText(b) == Slice(full_text, b.start_pos, b.end_pos)

\* C3 (as claimed): the text of every chunk tagged with main note A is a
\* substring of the document text in the range of a boundary numbered A.
C3_ChunkTextIsSubstringOfNoteRange ==
    \A k \in 1..Len(chunks) :
        chunks[k].note_number # None =>
            \E i \in 1..Len(note_boundaries) :
                /\ note_boundaries[i].note_number = chunks[k].note_number
                /\ Contains(RangeText(note_boundaries[i]), chunks[k].text)

\* the sentences of the blank-line-delimited elements of a text
SentencesOfElements(text) ==
    UNION {Range(SplitSentences(e.text, 0, 0)) : e \in Range(_extract_elements(text))}

\* the text of a chunk without the context header of boundary b, when the
\* chunk starts with it
WithoutHeader(text, b) ==
    LET header == Strip(NoteHeader(b.note_number, b.note_title))
    IN  IF IsPrefix(header, text) THEN Slice(text, Len(header), Len(text)) ELSE text

\* C3 (amended): every chunk tagged with main note A is made only of A's
\* context header and of text of A's range: once a leading context header
\* is removed, each sentence of each blank-line-delimited element of the
\* chunk's text is a substring of the document text in the range of a
\* boundary numbered A.
C3_ChunkMadeOfNoteRange ==
    \A k \in 1..Len(chunks) :
        chunks[k].note_number # None =>
            \E i \in 1..Len(note_boundaries) :
                /\ note_boundaries[i].note_number = chunks[k].note_number
                /\ \A piece \in SentencesOfElements(WithoutHeader(chunks[k].text, note_boundaries[i])) :
                      Contains(RangeText(note_boundaries[i]), piece)

\* C3 witness: a document with two main notes has been chunked, the first an
\* oversized note whose chunk carries the prepended header.
C3_Witness ==
    /\ cpc = "done"
    /\ Len(note_boundaries) = 2
    /\ note_boundaries[1].note_number # note_boundaries[2].note_number
    /\ \E k \in 1..Len(chunks) :
          /\ chunks[k].note_number = note_boundaries[1].note_number
          /\ chunks[k].chunk_type = "note_section"
    /\ \E k \in 1..Len(chunks) : chunks[k].note_number = note_boundaries[2].note_number

\* consecutive boundaries are adjacent and the last one ends with the text
BoundariesAdjacent(bs, textLen) ==
    /\ \A i \in 1..(Len(bs) - 1) : bs[i].end_pos = bs[i + 1].start_pos
    /\ bs[Len(bs)].end_pos = textLen

\* C4 (as claimed): when at least one main note is found the boundaries tile
\* the whole document: the first starts at 0, each ends where the next
\* starts, the last ends at len(text).
C4_BoundariesTileWholeText ==
    note_boundaries # <<>> =>
        /\ note_boundaries[1].start_pos = 0
        /\ BoundariesAdjacent(note_boundaries, Len(full_text))

\* C4 (amended): the boundaries tile the document from the first note marker
\* to the end: each boundary is a non-empty range inside the text, each ends
\* where the next starts, and the last ends at len(text); the first starts
\* at the first marker, which need not be position 0.
C4_BoundariesTileFromFirstNote ==
    note_boundaries # <<>> =>
        /\ note_boundaries[1].start_pos >= 0
        /\ \A i \in 1..Len(note_boundaries) :
              note_boundaries[i].start_pos < note_boundaries[i].end_pos
        /\ BoundariesAdjacent(note_boundaries, Len(full_text))
        /\ detect_note_boundaries(Slice(full_text, 0, note_boundaries[1].start_pos)) = <<>>

\* C4 witness: two main notes were detected behind leading non-note text.
C4_Witness ==
    /\ Len(note_boundaries) = 2
    /\ note_boundaries[1].start_pos > 0

\* the positions of the boundaries that carry a note number
BoundariesNumbered(note_number) ==
    {i \in 1..Len(note_boundaries) : note_boundaries[i].note_number = note_number}

\* C13: on the note-aware path the chunks are returned in document order:
\* a chunk of the material outside the notes, which lies before the first
\* note (the boundaries reach to the end of the text), never comes after a
\* chunk of a note, and chunks of notes follow the order of the boundaries.
C13_ChunksInDocumentOrder ==
    (cpc = "done" /\ enable_note_aware /\ note_boundaries # <<>>) =>
        \A j, k \in 1..Len(chunks) :
            j < k =>
                /\ chunks[k].note_number = None => chunks[j].note_number = None
                /\ (chunks[j].note_number # None /\ chunks[k].note_number # None) =>
                      \E bj \in BoundariesNumbered(chunks[j].note_number) :
                          \E bk \in BoundariesNumbered(chunks[k].note_number) : bj <= bk

\* the number of returned chunks tagged with a main note
ChunksNumbered(note_number) ==
    Cardinality({k \in 1..Len(chunks) : chunks[k].note_number = note_number})

\* the sentences of boundary b's range that occur nowhere in boundary o's
OwnSentences(b, o) ==
    {piece \in SentencesOfElements(RangeText(b)) : ~Contains(RangeText(o), piece)}

\* a document made of an oversized first main note that has sub-notes,
\* followed by a second main note, has been chunked on the note-aware path
OversizedNoteThenNote ==
    /\ cpc = "done"
    /\ enable_note_aware
    /\ Len(note_boundaries) = 2
    /\ note_boundaries[1].start_pos = 0
    /\ note_boundaries[1].note_number # note_boundaries[2].note_number
    /\ Len(Strip(RangeText(note_boundaries[1]))) > max_chunk_size
    /\ parse_note_hierarchy(Strip(RangeText(note_boundaries[1])),
                            note_boundaries[1].note_number) # <<>>

\* C14: for a document made of a main note longer than max_chunk_size that
\* contains sub-notes, followed by another main note, chunk_document returns
\* at least two chunks tagged with the first note, at least one tagged with
\* the second, and no chunk that holds text of both notes.
C14_OversizedNoteSplitAndSeparated ==
    OversizedNoteThenNote =>
        /\ ChunksNumbered(note_boundaries[1].note_number) >= 2
        /\ ChunksNumbered(note_boundaries[2].note_number) >= 1
        /\ \A k \in 1..Len(chunks) :
              ~ /\ \E piece \in OwnSentences(note_boundaries[1], note_boundaries[2]) :
                      Contains(chunks[k].text, piece)
                /\ \E piece \in OwnSentences(note_boundaries[2], note_boundaries[1]) :
                      Contains(chunks[k].text, piece)

\* the note the note loop is about to chunk fits max_chunk_size once trimmed
SmallNoteNext ==
    /\ cpc = "notes"
    /\ ci <= Len(note_boundaries)
    /\ Len(Strip(RangeText(note_boundaries[ci]))) <= max_chunk_size

\* C15: for a main note whose trimmed text is at most max_chunk_size long
\* _chunk_note emits exactly one chunk: its text is the trimmed note text,
\* its chunk_type is note_complete, is_critical and is_complete_note are
\* true and hierarchy_level is 0.
C15_SmallNoteIsOneCompleteChunk ==
    [][SmallNoteNext =>
          /\ Len(chunks') = Len(chunks) + 1
          /\ SubSeq(chunks', 1, Len(chunks)) = chunks
          /\ chunks'[Len(chunks')].text = Strip(RangeText(note_boundaries[ci]))
          /\ chunks'[Len(chunks')].chunk_type = "note_complete"
          /\ chunks'[Len(chunks')].is_critical
          /\ chunks'[Len(chunks')].is_complete_note
          /\ chunks'[Len(chunks')].hierarchy_level = 0]_chunkerVars

\* C15 witness: the note loop has chunked a small note whose range text has
\* blanks to trim, and gone on to the next note.
C15_Witness ==
    /\ cpc = "notes"
    /\ ci = 2
    /\ Len(Strip(RangeText(note_boundaries[1]))) <= max_chunk_size
    /\ Len(Strip(RangeText(note_boundaries[1]))) < Len(RangeText(note_boundaries[1]))
    /\ Len(chunks) = 1
    /\ chunks[1].chunk_type = "note_complete"

\* C16: every chunk chunk_document has produced has char_count = len(text),
\* on every chunking path, the chunks rewritten after creation (sub-section
\* paragraph fallback, note_mixed) included.
C16_CharCountIsTextLength ==
    \A k \in 1..Len(chunks) : chunks[k].char_count = Len(chunks[k].text)

\* C16 witness: chunk_document has returned a chunk of the sub-section
\* paragraph fallback, whose metadata was rewritten after creation, next to
\* a chunk of another note.
C16_Witness ==
    /\ cpc = "done"
    /\ \E k \in 1..Len(chunks) : chunks[k].chunk_type = "note_paragraph"
    /\ \E k \in 1..Len(chunks) : chunks[k].chunk_type = "note_complete"

\* C24: every chunk emitted for an oversized main note (sub-note chunks,
\* sub-section chunks, paragraph pieces of a sub-note, note_mixed chunks)
\* has a text that begins with the note's context header
\* '<note_number> - <note_title>'.
C24_NoteFragmentsStartWithHeader ==
    \A k \in 1..Len(chunks) :
        (chunks[k].note_number # None /\ chunks[k].chunk_type # "note_complete") =>
            \E i \in BoundariesNumbered(chunks[k].note_number) :
                IsPrefix(Strip(NoteHeader(note_boundaries[i].note_number,
                                          note_boundaries[i].note_title)),
                         chunks[k].text)

\* the part of a sub-note number '<m>.<s>' before the dot
MainNumberOf(sub_note) ==
    SubSeq(sub_note, 1, (CHOOSE i \in 1..Len(sub_note) :
                            sub_note[i] = "." /\ \A j \in 1..(i - 1) : sub_note[j] # ".") - 1)

\* the digits of a note number 'Note <digits>'
DigitsOfNote(note_number) == SubSeq(note_number, 6, Len(note_number))

\* C25: a '<m>.<s>' marker is a sub-note of note N only when m is N's
\* number: every sub-note boundary parse_note_hierarchy returns for a note,
\* and every emitted chunk with a sub_note, has a sub_note whose main number
\* is the number of its note_number.
C25_SubNotesBelongToTheirNote ==
    /\ \A i \in 1..Len(note_boundaries) :
          LET found == parse_note_hierarchy(Strip(RangeText(note_boundaries[i])),
                                            note_boundaries[i].note_number)
          IN  \A k \in 1..Len(found) :
                  MainNumberOf(found[k].sub_note) = DigitsOfNote(note_boundaries[i].note_number)
    /\ \A k \in 1..Len(chunks) :
          chunks[k].sub_note # None =>
              /\ chunks[k].note_number # None
              /\ MainNumberOf(chunks[k].sub_note) = DigitsOfNote(chunks[k].note_number)

\* C25 witness: a note whose text holds a sub-note marker of another main
\* number next to one of its own has been chunked by sub-notes.
C25_Witness ==
    /\ cpc = "done"
    /\ \E i \in 1..Len(note_boundaries) :
          LET markers == FindSubNotes(Strip(RangeText(note_boundaries[i])), 0)
          IN  /\ \E k \in 1..Len(markers) :
                    markers[k].g1 # DigitsOfNote(note_boundaries[i].note_number)
              /\ \E k \in 1..Len(markers) :
                    markers[k].g1 = DigitsOfNote(note_boundaries[i].note_number)
    /\ \E k \in 1..Len(chunks) : chunks[k].sub_note # None

\* the sentences of the paragraph elements of the input pages: the smallest
\* pieces the chunker cuts a paragraph into
ParagraphSentencesOfInput ==
    UNION {Range(SplitSentences(e.text, 0, 0)) :
               e \in {x \in UNION {Range(_extract_elements(pages[i].page_text)) : i \in 1..Len(pages)} :
                         x.type = "paragraph"}}

\* C28: chunk_document loses no content: when it has returned, every
\* sentence of every blank-line-delimited paragraph element of the input
\* pages stands in the text of at least one emitted chunk, text of an
\* oversized note before its first sub-note marker and text of an oversized
\* sub-note before its first sub-section marker included.
C28_NoContentLost ==
    cpc = "done" =>
        \A piece \in ParagraphSentencesOfInput :
            \E k \in 1..Len(chunks) : Contains(chunks[k].text, piece)

\* the numbers of the input pages whose text holds a piece of text
PagesHolding(piece) ==
    {pages[i].page_num : i \in {j \in 1..Len(pages) : Contains(pages[j].page_text, piece)}}

\* C29: every emitted chunk is attributed to the pages its source text lies
\* on: each sentence of the chunk's text that stands on some input page
\* stands on a page listed in the chunk's page_numbers; in particular a
\* chunk of non-note material from the second page of a stretch before the
\* first note is attributed to that page, not only to the stretch's first.
C29_ChunkPagesCoverSource ==
    \A k \in 1..Len(chunks) :
        \A piece \in SentencesOfElements(chunks[k].text) :
            PagesHolding(piece) # {} =>
                PagesHolding(piece) \cap Range(chunks[k].page_numbers) # {}

\* AdaptiveChunker(max_chunk_size = 36): the budget holds the context header
\* and two short elements
InitPacking ==
    /\ \E doc \in Docs : \E brk \in 0..(Len(doc) - 1) : pages = PagesOfDoc(doc, brk)
    /\ max_chunk_size = 36
    /\ enable_note_aware \in BOOLEAN
    /\ full_text = <<>>
    /\ page_boundaries = <<>>
    /\ note_boundaries = <<>>
    /\ non_note_ranges = <<>>
    /\ chunks = <<>>
    /\ cpc = "start"
    /\ ci = 1

\* the number of elements packed into a note_mixed chunk: the blank-line
\* delimited parts of its text after the header
ElementsPacked(chunk) == Len(_extract_elements(chunk.text)) - 1

\* C26: _chunk_large_note_by_elements packs elements greedily up to
\* max_chunk_size: every note_mixed chunk that holds two or more elements
\* has len(text) <= max_chunk_size, header and separators counted.
C26_PackedChunkWithinBudget ==
    \A k \in 1..Len(chunks) :
        (chunks[k].chunk_type = "note_mixed" /\ ElementsPacked(chunks[k]) >= 2) =>
            Len(chunks[k].text) <= max_chunk_size

(***************************************************************************)
(* smart_deduplicate as a state machine: one call, step by step, and a     *)
(* second call on the output of the first.                                 *)
(***************************************************************************)
\* the results the lists handed to smart_deduplicate are built from
Candidates == {
    RetrievalResult(1, <<"a","b"," ","c","d">>, "paragraph", <<>>, None, <<1>>, 90, "vector"),
    RetrievalResult(2, <<"A","B"," ","c","d"," ">>, "paragraph", <<>>, None, <<1>>, 80, "vector"),
    RetrievalResult(3, <<"x","y">>, "paragraph", <<>>, None, <<1>>, 80, "keyword"),
    RetrievalResult(4, <<"m","n">>, "paragraph", <<>>, None, <<1, 2>>, 50, "keyword"),
    RetrievalResult(5, <<"a","b"," ","c","e">>, "paragraph", <<>>, None, <<>>, 50, "keyword"),
    RetrievalResult(6, <<"a","b">>, "paragraph", <<>>, None, <<2>>, 60, "vector") }

\* the largest number of results handed to smart_deduplicate
MaxResults == 3

\* the similarity thresholds tried, in hundredths
Thresholds == {50, 75}

\* the largest max_chunks and max_per_page tried
MaxCap == 2

ResultLists == UNION {[1..n -> Candidates] : n \in 0..MaxResults}

DedupIdle ==
    /\ d_results = <<>>
    /\ d_threshold = 0
    /\ d_max_chunks = 0
    /\ d_max_per_page = 0
    /\ d_unique = <<>>
    /\ d_diverse = <<>>
    /\ d_out = <<>>
    /\ d_out2 = <<>>
    /\ dpc = "idle"

InitDedup ==
    /\ d_results \in ResultLists
    /\ d_threshold \in Thresholds
    /\ d_max_chunks \in 1..MaxCap
    /\ d_max_per_page \in 1..MaxCap
    /\ d_unique = <<>>
    /\ d_diverse = <<>>
    /\ d_out = <<>>
    /\ d_out2 = <<>>
    /\ dpc = "start"

\* `if not results: return []`
DedupEmpty ==
    /\ dpc = "start"
    /\ d_results = <<>>
    /\ d_out' = <<>>
    /\ dpc' = "returned"
    /\ UNCHANGED <<d_results, d_threshold, d_max_chunks, d_max_per_page,
                   d_unique, d_diverse, d_out2>>
    /\ UNCHANGED <<chunkerVars, retrieveVars, cursorVars, broadcastVars>>

\* step 1: deduplicate_by_similarity with max_chunks * 2
DedupSimilarity ==
    /\ dpc = "start"
    /\ d_results # <<>>
    /\ d_unique' = deduplicate_by_similarity(d_results, d_threshold, d_max_chunks * 2)
    /\ dpc' = "unique"
    /\ UNCHANGED <<d_results, d_threshold, d_max_chunks, d_max_per_page,
                   d_diverse, d_out, d_out2>>
    /\ UNCHANGED <<chunkerVars, retrieveVars, cursorVars, broadcastVars>>

\* step 2: filter_by_page_diversity
DedupDiversity ==
    /\ dpc = "unique"
    /\ d_diverse' = filter_by_page_diversity(d_unique, d_max_per_page)
    /\ dpc' = "diverse"
    /\ UNCHANGED <<d_results, d_threshold, d_max_chunks, d_max_per_page,
                   d_unique, d_out, d_out2>>
    /\ UNCHANGED <<chunkerVars, retrieveVars, cursorVars, broadcastVars>>

\* step 3: return diverse_chunks[:max_chunks]
DedupReturn ==
    /\ dpc = "diverse"
    /\ d_out' = Truncate(d_diverse, d_max_chunks)
    /\ dpc' = "returned"
    /\ UNCHANGED <<d_results, d_threshold, d_max_chunks, d_max_per_page,
                   d_unique, d_diverse, d_out2>>
    /\ UNCHANGED <<chunkerVars, retrieveVars, cursorVars, broadcastVars>>

\* a second call, on the returned list, with the same thresholds
DedupAgain ==
    /\ dpc = "returned"
    /\ d_out2' = smart_deduplicate(d_out, d_threshold, d_max_chunks, d_max_per_page)
    /\ dpc' = "again"
    /\ UNCHANGED <<d_results, d_threshold, d_max_chunks, d_max_per_page,
                   d_unique, d_diverse, d_out>>
    /\ UNCHANGED <<chunkerVars, retrieveVars, cursorVars, broadcastVars>>

NextDedup ==
    \/ DedupEmpty
    \/ DedupSimilarity
    \/ DedupDiversity
    \/ DedupReturn
    \/ DedupAgain

(***************************************************************************)
(* Claims about smart_deduplicate                                          *)
(***************************************************************************)
\* C9: smart_deduplicate is idempotent: a second call on the list the first
\* call returned, with the same similarity_threshold, max_chunks and
\* max_per_page, returns that list again, same elements in the same order.
C9_SmartDeduplicateIdempotent ==
    dpc = "again" => d_out2 = d_out

\* C9 witness: the second call has run on a list of two or more results from
\* which the first call had removed something.
C9_Witness ==
    /\ dpc = "again"
    /\ Len(d_out) >= 2
    /\ Len(d_out) < Len(d_results)

\* the positions of a list whose result has primary page p
WithPrimaryPage(results, p) ==
    {k \in 1..Len(results) : results[k].page_numbers # <<>> /\ results[k].page_numbers[1] = p}

\* the positions of a list whose result has no page number
WithoutPage(results) == {k \in 1..Len(results) : results[k].page_numbers = <<>>}

\* C10: in the list smart_deduplicate returns no page is the primary page
\* (page_numbers[0]) of more than max_per_page results, and the page filter
\* drops no result whose page_numbers is empty: such results are all still
\* there after it.
C10_PageCapAndPagelessKept ==
    /\ dpc \in {"returned", "again"} =>
          \A k \in 1..Len(d_out) :
              d_out[k].page_numbers # <<>> =>
                  Cardinality(WithPrimaryPage(d_out, d_out[k].page_numbers[1])) <= d_max_per_page
    /\ dpc \in {"diverse", "returned", "again"} /\ d_results # <<>> =>
          Cardinality(WithoutPage(d_diverse)) = Cardinality(WithoutPage(d_unique))

\* C10 witness: the page filter dropped a result of a full page and was
\* handed a result without page numbers, and the call has returned.
C10_Witness ==
    /\ dpc = "returned"
    /\ Len(d_diverse) < Len(d_unique)
    /\ WithoutPage(d_unique) # {}
    /\ \E k \in 1..Len(d_out) :
          /\ d_out[k].page_numbers # <<>>
          /\ Cardinality(WithPrimaryPage(d_out, d_out[k].page_numbers[1])) = d_max_per_page

\* the candidate's lower-cased, trimmed text is at least threshold-similar
\* to the kept result's
SimilarToKept(candidate, kept) ==
    RatioAtLeast(Strip(ToLower(candidate.chunk_text)), Strip(ToLower(kept.chunk_text)),
                 d_threshold)

\* the input of the similarity pass in descending score order
DedupSorted == SortedByScoreDesc(d_results)

\* pos places the kept results in the sorted input, in order
PlacesKept(pos) ==
    /\ \A k \in 1..Len(d_unique) : DedupSorted[pos[k]] = d_unique[k]
    /\ \A j, k \in 1..Len(d_unique) : j < k => pos[j] < pos[k]

\* the last position of the sorted input the walk looked at: the position of
\* the kept result that filled max_chunks * 2, or the end of the input
LastWalked(pos) ==
    IF Len(d_unique) >= d_max_chunks * 2 THEN pos[Len(d_unique)] ELSE Len(DedupSorted)

\* C23: deduplicate_by_similarity walks the results in descending score
\* order and, until max_chunks results are kept, drops a candidate exactly
\* when its normalised text is at least similarity_threshold similar to the
\* text of a result kept before it; so every candidate dropped as a
\* duplicate has a kept result of no lower score that it is similar to.
C23_DroppedIffSimilarToKept ==
    (dpc = "unique" /\ d_results # <<>>) =>
        \E pos \in [1..Len(d_unique) -> 1..Len(DedupSorted)] :
            /\ PlacesKept(pos)
            /\ Len(d_unique) <= d_max_chunks * 2
            /\ \A i \in 1..Len(DedupSorted) :
                  LET kept_before == {k \in 1..Len(d_unique) : pos[k] < i}
                  IN  IF i <= LastWalked(pos)
                      THEN /\ (\E k \in 1..Len(d_unique) : pos[k] = i)
                                <=> ~ \E k \in kept_before : SimilarToKept(DedupSorted[i], d_unique[k])
                           /\ (~ \E k \in 1..Len(d_unique) : pos[k] = i) =>
                                \E k \in kept_before :
                                    /\ d_unique[k].score >= DedupSorted[i].score
                                    /\ SimilarToKept(DedupSorted[i], d_unique[k])
                      ELSE ~ \E k \in 1..Len(d_unique) : pos[k] = i

\* C23 witness: the similarity pass has dropped a candidate whose text
\* differs from the kept result's in case and in blanks only, and kept a
\* candidate after it.
C23_Witness ==
    /\ dpc = "unique"
    /\ Len(d_results) = 3
    /\ Len(d_unique) = 2
    /\ \E i \in 1..3 :
          /\ DedupSorted[i].chunk_text # d_unique[1].chunk_text
          /\ Strip(ToLower(DedupSorted[i].chunk_text)) = Strip(ToLower(d_unique[1].chunk_text))
          /\ DedupSorted[i].chunk_id # d_unique[2].chunk_id

(***************************************************************************)
(* The call smart_deduplicate(reranked, similarity_threshold, 5, 2) that   *)
(* retrieve makes with top_k = 5, on twelve candidates: six of distinct    *)
(* content and a near-duplicate of each.                                   *)
(***************************************************************************)
\* the letters the candidate texts are made of
ScenarioLetters == <<"a", "b", "c", "d", "e", "f">>

\* the six results of distinct content, scores 1.00 down to 0.50, with the
\* page numbers given
ScenarioDistinct(pgs) ==
    [k \in 1..6 |->
        RetrievalResult(k, [i \in 1..5 |-> ScenarioLetters[k]], "paragraph", <<>>, None,
                        pgs[k], 110 - 10 * k, "vector")]

\* a near-duplicate of each (four characters of five the same: ratio 0.8),
\* scored below its original and below the next distinct result
ScenarioDuplicates(pgs) ==
    [k \in 1..6 |->
        RetrievalResult(6 + k, [i \in 1..5 |-> IF i = 5 THEN "z" ELSE ScenarioLetters[k]],
                        "paragraph", <<>>, None, pgs[k], 95 - 10 * k, "keyword")]

\* the page numbers a candidate may carry
ScenarioPages == {<<>>, <<1>>, <<2>>}

\* the twelve candidates as retrieve hands them over: sorted by score
ScenarioCandidates ==
    {SortedByScoreDesc(ScenarioDistinct(pgs) \o ScenarioDuplicates(pgs)) :
        pgs \in [1..6 -> ScenarioPages]}

InitScenario ==
    /\ d_results \in ScenarioCandidates
    /\ d_threshold \in {75, 80}
    /\ d_max_chunks = 5
    /\ d_max_per_page = 2
    /\ d_unique = <<>>
    /\ d_diverse = <<>>
    /\ d_out = <<>>
    /\ d_out2 = <<>>
    /\ dpc = "start"

NextScenario ==
    \/ DedupSimilarity
    \/ DedupDiversity
    \/ DedupReturn
    \/ DedupAgain

\* the results of distinct content among the candidates, in score order
DistinctOfScenario == SelectSeq(d_results, LAMBDA r : r.chunk_id <= 6)

DistinctWithinPageCap ==
    \A k \in 1..Len(DistinctOfScenario) :
        DistinctOfScenario[k].page_numbers # <<>> =>
            Cardinality(WithPrimaryPage(DistinctOfScenario,
                                        DistinctOfScenario[k].page_numbers[1])) <= d_max_per_page

WholeInputOutput ==
    Truncate(filter_by_page_diversity(
                 deduplicate_by_similarity(d_results, d_threshold, Len(d_results) + 1),
                 d_max_per_page),
             d_max_chunks)

\* C30: the cut-off of the similarity pass at 2 * max_chunks kept results
\* never changes what smart_deduplicate returns: the returned list is the
\* first max_chunks results of the page filter applied to the similarity
\* filter run over the entire sorted input, so it is shorter than max_chunks
\* only when fewer than max_chunks results of the whole input survive both.
C30_CutoffNeverChangesOutput ==
    dpc = "returned" => d_out = WholeInputOutput

(***************************************************************************)
(* HybridRetrievalEngine.retrieve as a state machine                       *)
(***************************************************************************)
\* the calls tried: query, section_filters, min_vector_results,
\* similarity_threshold
Requests == {
    [query |-> <<"F","a","i","r"," ","v","a","l","u","e"," ","4","2">>, section_filters |-> <<>>, min_vector_results |-> 3, similarity_threshold |-> 75],
    [query |-> <<"x"," ","4","2">>, section_filters |-> <<>>, min_vector_results |-> 0, similarity_threshold |-> 50],
    [query |-> <<"x"," ","4","2">>, section_filters |-> <<"notes">>, min_vector_results |-> 3, similarity_threshold |-> 75] }

\* the largest top_k tried
MaxTopK == 2

RetrieveIdle ==
    /\ query = <<>>
    /\ top_k = 0
    /\ section_filters = <<>>
    /\ min_vector_results = 0
    /\ enable_deduplication = FALSE
    /\ similarity_threshold = 0
    /\ index = <<>>
    /\ conn_status = "none"
    /\ vector_status = "none"
    /\ keyword_status = "none"
    /\ vector_results = <<>>
    /\ keyword_results = <<>>
    /\ combined = <<>>
    /\ reranked = <<>>
    /\ returned = <<>>
    /\ rpc = "idle"

InitRetrieve ==
    /\ \E req \in Requests :
          /\ query = req.query
          /\ section_filters = req.section_filters
          /\ min_vector_results = req.min_vector_results
          /\ similarity_threshold = req.similarity_threshold
    /\ top_k \in 1..MaxTopK
    /\ enable_deduplication \in BOOLEAN
    /\ index \in [1..Len(Corpus) -> IndexEntries]
    /\ conn_status = "none"
    /\ vector_status = "none"
    /\ keyword_status = "none"
    /\ vector_results = <<>>
    /\ keyword_results = <<>>
    /\ combined = <<>>
    /\ reranked = <<>>
    /\ returned = <<>>
    /\ rpc = "start"

\* _ensure_connection: the connection is alive, or it is dead and _connect
\* in the except branch succeeds, or that _connect raises
EnsureConnection ==
    /\ rpc = "start"
    /\ \E outcome \in {"alive", "reconnected", "connect_raised"} :
          /\ conn_status' = outcome
          /\ rpc' = IF outcome = "connect_raised" THEN "raised" ELSE "tier1"
    /\ UNCHANGED <<retrieveArgs, vector_status, keyword_status, vector_results,
                   keyword_results, combined, reranked, returned>>
    /\ UNCHANGED <<chunkerVars, dedupVars, cursorVars, broadcastVars>>

\* _vector_search: the embedding fails (return []), or cursor.execute raises
\* (nothing catches it: retrieve raises), or the rows come back
VectorSearch ==
    /\ rpc = "tier1"
    /\ \E outcome \in {"embed_failed", "execute_raised", "rows"} :
          /\ vector_status' = outcome
          /\ vector_results' =
                IF outcome = "rows"
                THEN IndexTopK(index, section_filters, "vector", top_k * 3)
                ELSE <<>>
          /\ rpc' = IF outcome = "execute_raised" THEN "raised" ELSE "tier2"
    /\ UNCHANGED <<retrieveArgs, conn_status, keyword_status, keyword_results,
                   combined, reranked, returned>>
    /\ UNCHANGED <<chunkerVars, dedupVars, cursorVars, broadcastVars>>

\* _keyword_search: cursor.execute raises inside the try (return []), or the
\* rows come back
KeywordSearch ==
    /\ rpc = "tier2"
    /\ \E outcome \in {"execute_raised", "rows"} :
          /\ keyword_status' = outcome
          /\ keyword_results' =
                IF outcome = "rows"
                THEN IndexTopK(index, section_filters, "keyword", top_k * 2)
                ELSE <<>>
    /\ rpc' = "merge"
    /\ UNCHANGED <<retrieveArgs, conn_status, vector_status, vector_results,
                   combined, reranked, returned>>
    /\ UNCHANGED <<chunkerVars, dedupVars, cursorVars, broadcastVars>>

\* combined = self._merge_results(vector_results, keyword_results)
MergeResults ==
    /\ rpc = "merge"
    /\ combined' = _merge_results(vector_results, keyword_results)
    /\ rpc' = "rerank"
    /\ UNCHANGED <<retrieveArgs, conn_status, vector_status, keyword_status,
                   vector_results, keyword_results, reranked, returned>>
    /\ UNCHANGED <<chunkerVars, dedupVars, cursorVars, broadcastVars>>

\* the objects of a tier's list after the re-rank loop changed them in place
\* (only objects that went into the merged list are visited)
TierAfterRerank(results, merged, hints) ==
    [i \in 1..Len(results) |->
        IF \E k \in 1..Len(merged) : merged[k] = results[i]
        THEN RerankedResult(results[i], hints)
        ELSE results[i]]

\* reranked = self._rerank_by_classification(combined, query, section_filters):
\* the results are the objects of the tier lists and are changed in place,
\* and combined is sorted in place, reranked being the same list
RerankResults ==
    /\ rpc = "rerank"
    /\ reranked' = _rerank_by_classification(combined, query, section_filters)
    /\ combined' = reranked'
    /\ vector_results' = TierAfterRerank(vector_results, combined,
                                         QuerySectionHints(query, section_filters))
    /\ keyword_results' = TierAfterRerank(keyword_results, combined,
                                          QuerySectionHints(query, section_filters))
    /\ rpc' = "dedup"
    /\ UNCHANGED <<retrieveArgs, conn_status, vector_status, keyword_status, returned>>
    /\ UNCHANGED <<chunkerVars, dedupVars, cursorVars, broadcastVars>>

\* Tier 4 and return
ReturnResults ==
    /\ rpc = "dedup"
    /\ returned' = IF enable_deduplication
                   THEN smart_deduplicate(reranked, similarity_threshold, top_k, 2)
                   ELSE Truncate(reranked, top_k)
    /\ rpc' = "returned"
    /\ UNCHANGED <<retrieveArgs, conn_status, vector_status, keyword_status,
                   vector_results, keyword_results, combined, reranked>>
    /\ UNCHANGED <<chunkerVars, dedupVars, cursorVars, broadcastVars>>

NextRetrieve ==
    \/ EnsureConnection
    \/ VectorSearch
    \/ KeywordSearch
    \/ MergeResults
    \/ RerankResults
    \/ ReturnResults

(***************************************************************************)
(* Claims about HybridRetrievalEngine.retrieve                             *)
(***************************************************************************)
\* what the keyword index returns for this call when it answers
KeywordIndexRows == IndexTopK(index, section_filters, "keyword", top_k * 2)

\* C5: when the vector index raises and the keyword index returns 3 results,
\* retrieve does not raise, and the list it returns is exactly those 3
\* results, each tagged retrieval_tier = "keyword".
C5_VectorDownReturnsKeywordResults ==
    (vector_status = "execute_raised" /\ Len(KeywordIndexRows) = 3) =>
        /\ rpc # "raised"
        /\ rpc = "returned" => returned = KeywordIndexRows

\* the chunk ids of a list of results
ChunkIds(results) == {results[k].chunk_id : k \in 1..Len(results)}

\* C6: retrieve never raises to its caller, whatever fails: with the keyword
\* backend failing the returned results are vector results only, and with no
\* tier answering the returned list is empty.
C6_RetrieveNeverRaises ==
    /\ rpc # "raised"
    /\ (rpc = "returned" /\ keyword_status = "execute_raised") =>
          ChunkIds(returned) \subseteq ChunkIds(vector_results)
    /\ (rpc = "returned" /\ vector_status # "rows" /\ keyword_status # "rows") =>
          returned = <<>>

\* C7: every execution of retrieve executes the keyword search: once
\* retrieve has ended, by returning or by raising, the keyword tier has run.
C7_KeywordSearchAlwaysExecuted ==
    rpc \in {"returned", "raised"} => keyword_status # "none"

\* C8: when the full-text index returns exactly one chunk and the vector
\* tier returned zero results, that chunk is the keyword tier's result and
\* is in the list retrieve returns, for every top_k >= 1.
C8_SingleKeywordResultIsReturned ==
    (keyword_status = "rows" /\ vector_results = <<>> /\ Len(KeywordIndexRows) = 1) =>
        /\ ChunkIds(keyword_results) = ChunkIds(KeywordIndexRows)
        /\ rpc = "returned" => ChunkIds(KeywordIndexRows) \subseteq ChunkIds(returned)

\* C8 witness: retrieve has returned with top_k = 1 and deduplication on,
\* the embedding having failed and the full-text index holding one match.
C8_Witness ==
    /\ rpc = "returned"
    /\ top_k = 1
    /\ enable_deduplication
    /\ vector_status = "embed_failed"
    /\ keyword_status = "rows"
    /\ Len(KeywordIndexRows) = 1
    /\ Len(returned) = 1

\* C11: the list retrieve returns has at most top_k results, with
\* deduplication enabled and with it disabled.
C11_AtMostTopKReturned ==
    rpc = "returned" => Len(returned) <= top_k

\* C11 witness: retrieve has returned top_k results with deduplication
\* enabled, more than top_k results having passed the similarity and the
\* page filter.
C11_Witness ==
    /\ rpc = "returned"
    /\ enable_deduplication
    /\ Len(returned) = top_k
    /\ Len(filter_by_page_diversity(
              deduplicate_by_similarity(reranked, similarity_threshold, top_k * 2), 2)) > top_k

\* what the tiers fetched for this call, before any later stage touched them
VectorRowsFetched ==
    IF vector_status = "rows" THEN IndexTopK(index, section_filters, "vector", top_k * 3)
    ELSE <<>>

KeywordRowsFetched ==
    IF keyword_status = "rows" THEN KeywordIndexRows ELSE <<>>

\* the position of the result with a chunk id in a list that holds it
PositionOf(results, id) == CHOOSE i \in 1..Len(results) : results[i].chunk_id = id

\* the list retrieve returns for given tier results, by its arguments
OutputFor(vr, kr) ==
    LET merged == _merge_results(vr, kr)
        ranked == _rerank_by_classification(merged, query, section_filters)
    IN  IF enable_deduplication
        THEN smart_deduplicate(ranked, similarity_threshold, top_k, 2)
        ELSE Truncate(ranked, top_k)

C20_ResultsNeverModified ==
    [][(rpc = "merge" \/ rpc = "rerank" \/ rpc = "dedup") =>
          /\ vector_results' = vector_results
          /\ keyword_results' = keyword_results]_retrieveVars

PreRank == _merge_results(VectorRowsFetched, KeywordRowsFetched)

\* the hints the query vocabulary gives for the query of this call
VocabularyHints == QuerySectionHints(query, <<>>)

\* the re-ranked list is the pre-rank list with each score multiplied by
\* 1 + 0.2 * matchCount, matchCount counting the section_types in hints, the
\* tier label 're-ranked' exactly for matchCount >= 1, sorted by score in
\* non-increasing order
RerankedWithHints(hints) ==
    /\ Len(reranked) = Len(PreRank)
    /\ \A k \in 1..Len(reranked) :
          LET pre == PreRank[PositionOf(PreRank, reranked[k].chunk_id)]
              matchCount == SectionMatchCount(pre.section_types, hints)
          IN  /\ reranked[k].score * 5 = pre.score * (5 + matchCount)
              /\ reranked[k].retrieval_tier = "re-ranked" <=> matchCount >= 1
              /\ matchCount = 0 => reranked[k].retrieval_tier = pre.retrieval_tier
    /\ \A j, k \in 1..Len(reranked) : j < k => reranked[j].score >= reranked[k].score

\* C22 (as claimed): after _rerank_by_classification each score is the
\* pre-rank score times (1 + 0.2 * matchCount), matchCount being the number
\* of the result's section_types in the hint set derived from the query
\* vocabulary; the tier is 're-ranked' iff matchCount >= 1; the list is
\* sorted by score, non-increasing.
C22_BoostByVocabularyHints ==
    rpc = "dedup" => RerankedWithHints(VocabularyHints)

\* C22 (amended): the same with the hint set being the hints of the query
\* vocabulary together with the caller's section_filters.
C22_BoostByVocabularyAndFilterHints ==
    rpc = "dedup" => RerankedWithHints(VocabularyHints \cup Range(section_filters))

\* C22 witness: the re-rank stage has run on a call with section filters
\* and boosted a result none of whose section_types is a vocabulary hint.
C22_Witness ==
    /\ rpc = "dedup"
    /\ section_filters # <<>>
    /\ Len(reranked) >= 2
    /\ \E k \in 1..Len(reranked) :
          /\ reranked[k].retrieval_tier = "re-ranked"
          /\ SectionMatchCount(reranked[k].section_types, VocabularyHints) = 0

(***************************************************************************)
(* The engine's cursor.  _connect creates one connection and one cursor,   *)
(* self.cursor; _ensure_connection, _vector_search and _keyword_search all *)
(* run `self.cursor.execute(...)` and then fetch from it.  RAGService      *)
(* keeps one engine (get_rag_service) and runs every query on a pool of    *)
(* ten threads, so the statements of two calls interleave on the cursor.   *)
(* execute replaces the rows the cursor holds; a fetch takes rows from it. *)
(***************************************************************************)
Threads == {1, 2}

\* the arguments of the calls: RAGService.query hands query, top_k and
\* section_filters on, retrieve's other parameters keep their defaults
CallRequests == <<
    [query |-> <<"F","a","i","r"," ","v","a","l","u","e"," ","4","2">>, top_k |-> 1, section_filters |-> <<>>, similarity_threshold |-> 75],
    [query |-> <<"x"," ","4","2">>, top_k |-> 1, section_filters |-> <<>>, similarity_threshold |-> 75] >>

\* what the table holds for the queries tried
CallIndexes == {
    <<[stored |-> TRUE, similarity |-> 80, rank |-> 50], [stored |-> TRUE, similarity |-> 50, rank |-> 0],
      [stored |-> TRUE, similarity |-> 50, rank |-> 0], [stored |-> TRUE, similarity |-> 50, rank |-> 50]>>,
    <<[stored |-> TRUE, similarity |-> 50, rank |-> 0], [stored |-> TRUE, similarity |-> 80, rank |-> 50],
      [stored |-> TRUE, similarity |-> 80, rank |-> 0], [stored |-> TRUE, similarity |-> 50, rank |-> 0]>>,
    <<[stored |-> FALSE, similarity |-> 0, rank |-> 0], [stored |-> TRUE, similarity |-> 50, rank |-> 50],
      [stored |-> FALSE, similarity |-> 0, rank |-> 0], [stored |-> TRUE, similarity |-> 80, rank |-> 0]>> }

\* the call a thread works for
CallOf(shr, t) == IF shr = "tiers" THEN 1 ELSE t

\* the statements a thread runs on the cursor, in order: one lookup of the
\* call, or the whole of retrieve ("SELECT 1" of _ensure_connection, then
\* the two tiers)
StatementsOf(shr, t) ==
    IF shr = "tiers" THEN (IF t = 1 THEN <<"vector">> ELSE <<"keyword">>)
    ELSE <<"ping", "vector", "keyword">>

\* the rows the database returns for a statement of a call; each row carries
\* the call and the statement it answers
StatementRows(c, kind, idx) ==
    IF kind = "ping"
    THEN <<[call |-> c, statement |-> "ping", chunk_id |-> 0, value |-> 1]>>
    ELSE LET found == IndexTopK(idx, CallRequests[c].section_filters, kind,
                                IF kind = "vector" THEN CallRequests[c].top_k * 3
                                ELSE CallRequests[c].top_k * 2)
         IN  [i \in 1..Len(found) |->
                 [call |-> c, statement |-> kind,
                  chunk_id |-> found[i].chunk_id, value |-> found[i].score]]

\* the RetrievalResult a tier builds from a fetched row with row.get: the
\* defaults stand in for the columns the row lacks (chunk id 0 is 'unknown')
RowAsResult(fetched, tier) ==
    IF fetched.statement = "ping"
    THEN RetrievalResult(0, <<"N","o"," ","t","e","x","t"," ","a","v","a","i","l","a","b","l","e">>,
                         "paragraph", <<>>, None, <<>>, 0, tier)
    ELSE RetrievalResult(fetched.chunk_id, Corpus[fetched.chunk_id].chunk_text, "paragraph",
                         Corpus[fetched.chunk_id].section_types, None,
                         Corpus[fetched.chunk_id].page_numbers,
                         IF fetched.statement = tier THEN fetched.value ELSE 0, tier)

RowsAsTierResults(fetched_rows, tier) ==
    [i \in 1..Len(fetched_rows) |-> RowAsResult(fetched_rows[i], tier)]

\* what retrieve makes of the rows its two tiers fetched
RetrieveFromRows(c, vector_rows, keyword_rows) ==
    smart_deduplicate(
        _rerank_by_classification(
            _merge_results(RowsAsTierResults(vector_rows, "vector"),
                           RowsAsTierResults(keyword_rows, "keyword")),
            CallRequests[c].query, CallRequests[c].section_filters),
        CallRequests[c].similarity_threshold, CallRequests[c].top_k, 2)

CursorIdle ==
    /\ sharing = "none"
    /\ call_index = <<>>
    /\ cursor = <<>>
    /\ thread_statement = <<>>
    /\ thread_phase = <<>>
    /\ thread_vector_rows = <<>>
    /\ thread_keyword_rows = <<>>
    /\ thread_returned = <<>>

InitCursor ==
    /\ sharing \in {"tiers", "calls"}
    /\ call_index \in [Threads -> CallIndexes]
    /\ sharing = "tiers" => call_index[2] = call_index[1]
    /\ cursor = <<>>
    /\ thread_statement = [t \in Threads |-> 1]
    /\ thread_phase = [t \in Threads |-> "execute"]
    /\ thread_vector_rows = [t \in Threads |-> <<>>]
    /\ thread_keyword_rows = [t \in Threads |-> <<>>]
    /\ thread_returned = [t \in Threads |-> <<>>]

\* self.cursor.execute(...): the cursor now holds the rows of this statement
Execute(t) ==
    /\ thread_phase[t] = "execute"
    /\ cursor' = StatementRows(CallOf(sharing, t),
                               StatementsOf(sharing, t)[thread_statement[t]],
                               call_index[CallOf(sharing, t)])
    /\ thread_phase' = [thread_phase EXCEPT ![t] = "fetch"]
    /\ UNCHANGED <<sharing, call_index, thread_statement, thread_vector_rows,
                   thread_keyword_rows, thread_returned>>
    /\ UNCHANGED <<chunkerVars, dedupVars, retrieveVars, broadcastVars>>

\* self.cursor.fetchone() after "SELECT 1", self.cursor.fetchall() in a
\* tier: the thread takes what the cursor holds, whoever executed it
Fetch(t) ==
    /\ thread_phase[t] = "fetch"
    /\ LET kind == StatementsOf(sharing, t)[thread_statement[t]]
           last == thread_statement[t] = Len(StatementsOf(sharing, t))
       IN  /\ cursor' = IF kind = "ping" /\ cursor # <<>> THEN Tail(cursor) ELSE <<>>
           /\ thread_vector_rows' =
                 IF kind = "vector" THEN [thread_vector_rows EXCEPT ![t] = cursor]
                 ELSE thread_vector_rows
           /\ thread_keyword_rows' =
                 IF kind = "keyword" THEN [thread_keyword_rows EXCEPT ![t] = cursor]
                 ELSE thread_keyword_rows
           /\ thread_statement' =
                 IF last THEN thread_statement
                 ELSE [thread_statement EXCEPT ![t] = @ + 1]
           /\ thread_phase' =
                 [thread_phase EXCEPT ![t] =
                     IF ~last THEN "execute"
                     ELSE IF sharing = "calls" THEN "finish" ELSE "done"]
    /\ UNCHANGED <<sharing, call_index, thread_returned>>
    /\ UNCHANGED <<chunkerVars, dedupVars, retrieveVars, broadcastVars>>

\* the rest of retrieve: merge, re-rank, deduplicate, return
Finish(t) ==
    /\ thread_phase[t] = "finish"
    /\ thread_returned' =
          [thread_returned EXCEPT ![t] =
              RetrieveFromRows(CallOf(sharing, t), thread_vector_rows[t],
                               thread_keyword_rows[t])]
    /\ thread_phase' = [thread_phase EXCEPT ![t] = "done"]
    /\ UNCHANGED <<sharing, call_index, cursor, thread_statement,
                   thread_vector_rows, thread_keyword_rows>>
    /\ UNCHANGED <<chunkerVars, dedupVars, retrieveVars, broadcastVars>>

NextCursor ==
    \E t \in Threads :
        \/ Execute(t)
        \/ Fetch(t)
        \/ Finish(t)

(***************************************************************************)
(* Claims about the lookups on the shared cursor                           *)
(***************************************************************************)
\* the rows a lookup of call c fetches when nothing else uses the cursor
RowsAlone(c, kind) == StatementRows(c, kind, call_index[c])

\* C18: the vector and the keyword lookup of one retrieve call share no
\* mutable state: however their execute and fetch steps interleave, each
\* ends with the rows it gets when it runs alone.
C18_TiersIndependent ==
    (sharing = "tiers" /\ \A t \in Threads : thread_phase[t] = "done") =>
        /\ thread_vector_rows[1] = RowsAlone(1, "vector")
        /\ thread_keyword_rows[2] = RowsAlone(1, "keyword")

\* C19: two retrieve calls that run at the same time on the one engine need
\* no synchronisation: every row a call's tiers fetched answers a statement
\* of that call, so the results it returns are made of rows of its own query
\* only, and are what the call returns when it runs alone.
C19_CallsFetchOwnRows ==
    sharing = "calls" =>
        \A t \in Threads :
            /\ \A i \in 1..Len(thread_vector_rows[t]) : thread_vector_rows[t][i].call = t
            /\ \A i \in 1..Len(thread_keyword_rows[t]) : thread_keyword_rows[t][i].call = t
            /\ thread_phase[t] = "done" =>
                  thread_returned[t] = RetrieveFromRows(t, RowsAlone(t, "vector"),
                                                        RowsAlone(t, "keyword"))

(***************************************************************************)
(* IngestionBroadcaster and the websocket connections that subscribe to    *)
(* it.  A payload's level is a label no branch reads; its timestamp is     *)
(* modelled by the number of the broadcast call.  broadcast is called on   *)
(* the running event loop (api/upload.py), so the put is always scheduled. *)
(* queues, history and subscribers are dicts: functions whose domain is    *)
(* the set of upload_ids that have an entry.                               *)
(***************************************************************************)
\* the largest upload_id and the largest number of broadcast calls
MaxUploads == 2

MaxMessages == 2

\* the websocket connections
Subscribers == {"ws1", "ws2"}

BroadcastIdle ==
    /\ queues = <<>>
    /\ history = <<>>
    /\ subscribers = <<>>
    /\ callbacks = <<>>
    /\ broadcast_count = 0
    /\ ws_upload = <<>>
    /\ ws_phase = <<>>
    /\ ws_snapshot = <<>>
    /\ ws_position = <<>>
    /\ ws_received = <<>>

\* IngestionBroadcaster.broadcast(upload_id, message): the payload goes to
\* the history deque and, when the upload has a queue, a put_nowait is
\* scheduled on the loop
Broadcast(upload_id, message) ==
    /\ broadcast_count < MaxMessages
    /\ LET payload == [upload_id |-> upload_id, message |-> message,
                       timestamp |-> broadcast_count + 1]
           deque == IF upload_id \in DOMAIN history THEN history[upload_id] ELSE <<>>
       IN  /\ history' = [u \in DOMAIN history \cup {upload_id} |->
                             IF u # upload_id THEN history[u]
                             ELSE IF Len(deque) >= 50 THEN Tail(deque) \o <<payload>>
                             ELSE Append(deque, payload)]
           /\ callbacks' = IF upload_id \in DOMAIN queues
                           THEN Append(callbacks, payload) ELSE callbacks
    /\ broadcast_count' = broadcast_count + 1
    /\ UNCHANGED <<queues, subscribers, ws_upload, ws_phase, ws_snapshot,
                   ws_position, ws_received>>
    /\ UNCHANGED <<chunkerVars, dedupVars, retrieveVars, cursorVars>>

\* the loop runs the oldest scheduled callback: queues[upload_id].put_nowait
RunCallback ==
    /\ callbacks # <<>>
    /\ queues' = [queues EXCEPT ![Head(callbacks).upload_id] = Append(@, Head(callbacks))]
    /\ callbacks' = Tail(callbacks)
    /\ UNCHANGED <<history, subscribers, broadcast_count, ws_upload, ws_phase,
                   ws_snapshot, ws_position, ws_received>>
    /\ UNCHANGED <<chunkerVars, dedupVars, retrieveVars, cursorVars>>

\* subscribe yields log_entry to websocket_ingestion_logs, which sends it
\* and leaves the loop after a final message; the generator's finally then
\* counts the subscriber out.  Otherwise the generator goes on in phase next.
Yield(s, log_entry, next, counted) ==
    /\ ws_received' = [ws_received EXCEPT ![s] = Append(@, log_entry)]
    /\ IF log_entry.message = "Status: SUCCESS"
       THEN /\ ws_phase' = [ws_phase EXCEPT ![s] = "closed"]
            /\ subscribers' = [counted EXCEPT ![ws_upload[s]] = @ - 1]
       ELSE /\ ws_phase' = [ws_phase EXCEPT ![s] = next]
            /\ subscribers' = counted

\* subscribe reaches `await self.queues[upload_id].get()`: a waiting entry
\* is taken and yielded at once, otherwise the generator waits
AwaitGet(s, waiting, counted) ==
    IF waiting[ws_upload[s]] # <<>>
    THEN /\ queues' = [waiting EXCEPT ![ws_upload[s]] = Tail(@)]
         /\ Yield(s, Head(waiting[ws_upload[s]]), "listening", counted)
    ELSE /\ queues' = waiting
         /\ ws_phase' = [ws_phase EXCEPT ![s] = "listening"]
         /\ subscribers' = counted
         /\ ws_received' = ws_received

\* websocket_ingestion_logs starts `async for ... in subscribe(upload_id)`:
\* the queue is created if missing, the subscriber counted, and the
\* generator runs to its first yield or to its first wait
Subscribe(s) ==
    /\ ws_phase[s] = "connecting"
    /\ LET u == ws_upload[s]
           made == [x \in DOMAIN queues \cup {u} |->
                       IF x \in DOMAIN queues THEN queues[x] ELSE <<>>]
           counted == [x \in DOMAIN made |->
                          IF x # u THEN subscribers[x]
                          ELSE (IF u \in DOMAIN queues THEN subscribers[u] ELSE 0) + 1]
       IN  IF u \in DOMAIN history
           THEN /\ ws_snapshot' = [ws_snapshot EXCEPT ![s] = history[u]]
                /\ ws_position' = [ws_position EXCEPT ![s] = 1]
                /\ queues' = made
                /\ Yield(s, history[u][1], "history", counted)
           ELSE /\ ws_snapshot' = ws_snapshot
                /\ ws_position' = ws_position
                /\ AwaitGet(s, made, counted)
    /\ UNCHANGED <<history, callbacks, broadcast_count, ws_upload>>
    /\ UNCHANGED <<chunkerVars, dedupVars, retrieveVars, cursorVars>>

\* the next step of `for msg in self.history[upload_id]`: a deque appended
\* to since the loop began raises RuntimeError (the connection is closed
\* with an error), otherwise the next entry is yielded or the loop ends
HistoryNext(s) ==
    /\ ws_phase[s] = "history"
    /\ IF history[ws_upload[s]] # ws_snapshot[s]
       THEN /\ ws_phase' = [ws_phase EXCEPT ![s] = "closed"]
            /\ subscribers' = [subscribers EXCEPT ![ws_upload[s]] = @ - 1]
            /\ UNCHANGED <<queues, ws_position, ws_received>>
       ELSE IF ws_position[s] < Len(ws_snapshot[s])
            THEN /\ ws_position' = [ws_position EXCEPT ![s] = @ + 1]
                 /\ queues' = queues
                 /\ Yield(s, ws_snapshot[s][ws_position[s] + 1], "history", subscribers)
            ELSE /\ ws_position' = ws_position
                 /\ AwaitGet(s, queues, subscribers)
    /\ UNCHANGED <<history, callbacks, broadcast_count, ws_upload, ws_snapshot>>
    /\ UNCHANGED <<chunkerVars, dedupVars, retrieveVars, cursorVars>>

\* `msg = await self.queues[upload_id].get(); yield msg` of a waiting
\* generator: it takes the oldest entry of the upload's one queue
GetMessage(s) ==
    /\ ws_phase[s] = "listening"
    /\ queues[ws_upload[s]] # <<>>
    /\ AwaitGet(s, queues, subscribers)
    /\ UNCHANGED <<history, callbacks, broadcast_count, ws_upload, ws_snapshot,
                   ws_position>>
    /\ UNCHANGED <<chunkerVars, dedupVars, retrieveVars, cursorVars>>

NextBroadcast ==
    \/ \E upload_id \in 1..MaxUploads :
           \E message \in {"progress", "Status: SUCCESS"} : Broadcast(upload_id, message)
    \/ RunCallback
    \/ \E s \in Subscribers : Subscribe(s)
    \/ \E s \in Subscribers : HistoryNext(s)
    \/ \E s \in Subscribers : GetMessage(s)

(***************************************************************************)
(* Claims about IngestionBroadcaster                                       *)
(***************************************************************************)
\* the connection's generator is subscribed and running
Subscribed(s) == ws_phase[s] \in {"history", "listening"}

\* broadcast number n was made for the connection's upload after the
\* connection subscribed: it stands in the history behind the entries the
\* connection found there
BroadcastAfterSubscribing(s, n) ==
    /\ ws_upload[s] \in DOMAIN history
    /\ \E k \in (Len(ws_snapshot[s]) + 1)..Len(history[ws_upload[s]]) :
        history[ws_upload[s]][k].timestamp = n

\* C27: broadcast delivers each message to all subscribers of the upload:
\* when two or more connections are subscribed to the same upload_id, every
\* message broadcast after they subscribed is eventually yielded to each of
\* them (as long as the connection stays open).
C27_EachSubscriberGetsEachMessage ==
    \A s \in Subscribers : \A n \in 1..MaxMessages :
        (/\ Subscribed(s)
         /\ \E o \in Subscribers \ {s} : Subscribed(o) /\ ws_upload[o] = ws_upload[s]
         /\ BroadcastAfterSubscribing(s, n))
        ~> (\/ \E i \in 1..Len(ws_received[s]) : ws_received[s][i].timestamp = n
            \/ ws_phase[s] = "closed")

(***************************************************************************)
(* Specifications: one per component, the other components idle.           *)
(***************************************************************************)
vars == <<chunkerVars, dedupVars, retrieveVars, cursorVars, broadcastVars>>

InitSpecChunker == InitChunker /\ DedupIdle /\ RetrieveIdle /\ CursorIdle /\ BroadcastIdle

SpecChunker == InitSpecChunker /\ [][NextChunker]_vars

InitSpecPacking == InitPacking /\ DedupIdle /\ RetrieveIdle /\ CursorIdle /\ BroadcastIdle

SpecPacking == InitSpecPacking /\ [][NextChunker]_vars

InitSpecDedup == InitDedup /\ ChunkerIdle /\ RetrieveIdle /\ CursorIdle /\ BroadcastIdle

SpecDedup == InitSpecDedup /\ [][NextDedup]_vars

InitSpecScenario == InitScenario /\ ChunkerIdle /\ RetrieveIdle /\ CursorIdle /\ BroadcastIdle

SpecScenario == InitSpecScenario /\ [][NextScenario]_vars

\* smart_deduplicate(results, similarity_threshold, max_chunks, max_per_page)
\* on the twelve candidates with small max_chunks, so that the similarity
\* pass stops at max_chunks * 2 kept results before the end of the input
InitSpecCutoff ==
    /\ d_results \in ScenarioCandidates
    /\ d_threshold \in {75, 80}
    /\ d_max_chunks \in 1..MaxCap
    /\ d_max_per_page \in 1..MaxCap
    /\ d_unique = <<>>
    /\ d_diverse = <<>>
    /\ d_out = <<>>
    /\ d_out2 = <<>>
    /\ dpc = "start"
    /\ ChunkerIdle /\ RetrieveIdle /\ CursorIdle /\ BroadcastIdle

SpecCutoff == InitSpecCutoff /\ [][NextScenario]_vars

InitSpecRetrieve == InitRetrieve /\ ChunkerIdle /\ DedupIdle /\ CursorIdle /\ BroadcastIdle

SpecRetrieve == InitSpecRetrieve /\ [][NextRetrieve]_vars

InitSpecCursor == InitCursor /\ ChunkerIdle /\ DedupIdle /\ RetrieveIdle /\ BroadcastIdle

SpecCursor == InitSpecCursor /\ [][NextCursor]_vars


\* two websocket connections, each for an upload, and no broadcast yet; the
\* event loop runs every scheduled callback and every generator that can
\* go on
InitSpecBroadcast ==
    /\ queues = <<>>
    /\ history = <<>>
    /\ subscribers = <<>>
    /\ callbacks = <<>>
    /\ broadcast_count = 0
    /\ ws_upload \in [Subscribers -> 1..MaxUploads]
    /\ ws_phase = [s \in Subscribers |-> "connecting"]
    /\ ws_snapshot = [s \in Subscribers |-> <<>>]
    /\ ws_position = [s \in Subscribers |-> 0]
    /\ ws_received = [s \in Subscribers |-> <<>>]
    /\ ChunkerIdle /\ DedupIdle /\ RetrieveIdle /\ CursorIdle

SpecBroadcast ==
    /\ InitSpecBroadcast
    /\ [][NextBroadcast]_vars
    /\ WF_vars(RunCallback)
    /\ \A s \in Subscribers : WF_vars(Subscribe(s)) /\ WF_vars(HistoryNext(s)) /\ WF_vars(GetMessage(s))

====
